---- MODULE Spec2Model ----
(***************************************************************************)
(* Utility-consumption tracking backend (electricity, oil, water).         *)
(*                                                                         *)
(* Conventions of the model                                                *)
(*  - A Python float is an exact rational [n, d] in lowest terms, d > 0.   *)
(*    A rational with d = 0 stands for "the division raised                *)
(*    ZeroDivisionError"; arithmetic propagates it.  Binary rounding error *)
(*    of IEEE doubles is not modelled; round() is round-half-to-even on    *)
(*    the exact value.                                                     *)
(*  - A datetime.date is its proleptic Gregorian ordinal                   *)
(*    (date.toordinal()); date differences are differences of ordinals.    *)
(*  - A table is the set of its rows; rows are read back in rowid order.   *)
(*  - `response` is the answer of the last request: status code, body and, *)
(*    for a 500, the exception the handler raised.  A direct call of a     *)
(*    calculator function is recorded the same way with status 0.          *)
(***************************************************************************)
EXTENDS Integers, Sequences, FiniteSets, TLC

VARIABLES electricity, oil, oil_fill_level, water, sessions, response

vars == <<electricity, oil, oil_fill_level, water, sessions, response>>

(***************************************************************************)
(* Bounds of the model.                                                    *)
(***************************************************************************)
\* Largest row id the store hands out: at most MaxId rows are ever stored.
MaxId == 3

\* The requests that can be in progress at the same time.
MaxRequests == 4

Requests == 1..MaxRequests

(***************************************************************************)
(* Exact rational arithmetic standing for Python floats.                   *)
(***************************************************************************)
Abs(x) == IF x < 0 THEN -x ELSE x

Min(a, b) == IF a < b THEN a ELSE b

Max(a, b) == IF a > b THEN a ELSE b

RECURSIVE GCD(_, _)
GCD(a, b) == IF b = 0 THEN a ELSE GCD(b, a % b)

\* The float n/d (d # 0), in lowest terms with a positive denominator.
Rat(n, d) ==
    LET g == GCD(Abs(n), Abs(d))
        s == IF d < 0 THEN -1 ELSE 1
    IN  [n |-> s * (n \div g), d |-> s * (d \div g)]

\* An int used where a float is expected.
IntRat(k) == [n |-> k, d |-> 1]

Zero == IntRat(0)

\* The outcome of a float division by zero: ZeroDivisionError was raised.
DivError == [n |-> 1, d |-> 0]

Raised(x) == x.d = 0

RAdd(a, b) ==
    IF Raised(a) \/ Raised(b) THEN DivError
    ELSE LET g == GCD(a.d, b.d)
             l == (a.d \div g) * b.d
         IN  Rat(a.n * (l \div a.d) + b.n * (l \div b.d), l)

RNeg(a) == IF Raised(a) THEN DivError ELSE [n |-> -a.n, d |-> a.d]

RSub(a, b) == RAdd(a, RNeg(b))

RMul(a, b) ==
    IF Raised(a) \/ Raised(b) THEN DivError
    ELSE LET g1 == GCD(Abs(a.n), b.d)
             g2 == GCD(Abs(b.n), a.d)
             h1 == IF g1 = 0 THEN 1 ELSE g1
             h2 == IF g2 = 0 THEN 1 ELSE g2
         IN  Rat((a.n \div h1) * (b.n \div h2), (a.d \div h2) * (b.d \div h1))

\* Python's a / b on floats: raises ZeroDivisionError when b == 0.
RDiv(a, b) ==
    IF Raised(a) \/ Raised(b) \/ b.n = 0 THEN DivError
    ELSE RMul(a, Rat(b.d, b.n))

RLess(a, b) == a.n * b.d < b.n * a.d

RLeq(a, b) == a.n * b.d <= b.n * a.d

RECURSIVE Pow10(_)
Pow10(p) == IF p = 0 THEN 1 ELSE 10 * Pow10(p - 1)

\* Python's round(x, places): the nearest multiple of 10^-places, ties to even.
Round(x, places) ==
    IF Raised(x) THEN DivError
    ELSE LET s    == Pow10(places)
             q    == x.n \div x.d
             rem  == x.n - q * x.d
             k    == (rem * s) \div x.d
             rest == rem * s - k * x.d
             base == q * s + k
             up   == \/ 2 * rest > x.d
                     \/ (2 * rest = x.d /\ base % 2 = 1)
         IN  Rat(IF up THEN base + 1 ELSE base, s)

(***************************************************************************)
(* datetime.date as a proleptic Gregorian ordinal.                         *)
(***************************************************************************)
IsLeap(y) == (y % 4 = 0) /\ ((y % 100 # 0) \/ (y % 400 = 0))

\* Number of days before January 1st of year y.
DaysBeforeYear(y) ==
    LET p == y - 1
    IN  p * 365 + (p \div 4) - (p \div 100) + (p \div 400)

DaysInMonth(y, m) ==
    IF m = 2 THEN (IF IsLeap(y) THEN 29 ELSE 28)
    ELSE IF m \in {4, 6, 9, 11} THEN 30 ELSE 31

RECURSIVE DaysBeforeMonth(_, _)
DaysBeforeMonth(y, m) ==
    IF m = 1 THEN 0 ELSE DaysBeforeMonth(y, m - 1) + DaysInMonth(y, m - 1)

\* date(y, m, d)
Date(y, m, d) == DaysBeforeYear(y) + DaysBeforeMonth(y, m) + d

\* date.year
YearOf(o) ==
    CHOOSE y \in (o \div 366)..((o \div 365) + 1) :
        DaysBeforeYear(y) < o /\ o <= DaysBeforeYear(y + 1)

(***************************************************************************)
(* Entry store: generic CRUD over one table (a set of rows).               *)
(***************************************************************************)
RECURSIVE SetMax(_)
SetMax(S) ==
    LET x == CHOOSE x \in S : TRUE
    IN  IF S = {x} THEN x ELSE Max(x, SetMax(S \ {x}))

RECURSIVE SetMin(_)
SetMin(S) ==
    LET x == CHOOSE x \in S : TRUE
    IN  IF S = {x} THEN x ELSE Min(x, SetMin(S \ {x}))

\* sorted(S) for a set of ints
RECURSIVE Sorted(_)
Sorted(S) ==
    IF S = {} THEN <<>>
    ELSE LET m == SetMin(S) IN <<m>> \o Sorted(S \ {m})

\* seq.sort(key=lambda x: x.<key>, reverse=True): by the attribute key,
\* largest first; the sort is stable, elements with equal keys keep their
\* order.
SortedDescending(seq, key) ==
    LET n == Len(seq)
        position(i) ==
            Cardinality({j \in 1..n : seq[j][key] > seq[i][key]})
              + Cardinality({j \in 1..(i - 1) : seq[j][key] = seq[i][key]}) + 1
    IN  [p \in 1..n |-> seq[CHOOSE i \in 1..n : position(i) = p]]

Ids(table) == {r.id : r \in table}

\* A new row's id taken from the number of rows: count + 1.
NextIdByCount(table) == Cardinality(table) + 1

\* The id an integer primary key column gives a new row: the largest rowid + 1.
NextId(table) == IF table = {} THEN 1 ELSE SetMax(Ids(table)) + 1

\* db.query(model).all(): the rows in rowid order.
Rows(table) ==
    LET ids == Sorted(Ids(table))
    IN  [i \in 1..Len(ids) |-> CHOOSE r \in table : r.id = ids[i]]

\* create_entry: model(**schema.model_dump()); add; commit; refresh.
\* Yields the new table and the persisted row.
create_entry(table, entry_schema) ==
    LET db_entry == [id |-> NextId(table)] @@ entry_schema
    IN  [table |-> table \cup {db_entry}, db_entry |-> db_entry]

\* get_entry without its filter: the first row of the table, whatever its id.
get_entry_unfiltered(table, entry_id) ==
    IF table # {} THEN <<Rows(table)[1]>> ELSE <<>>

\* get_entry: .filter(model.id == entry_id).first(); <<>> stands for None.
get_entry(table, entry_id) ==
    IF \E r \in table : r.id = entry_id
    THEN <<CHOOSE r \in table : r.id = entry_id>>
    ELSE <<>>

get_entries(table) == Rows(table)

\* delete_entry reporting True whether or not the row exists.
delete_entry_always_true(table, entry_id) ==
    [table |-> {r \in table : r.id # entry_id}, result |-> TRUE]

\* delete_entry: True and the row removed when it exists, else False.
delete_entry(table, entry_id) ==
    LET db_entry == get_entry(table, entry_id)
    IN  IF db_entry # <<>>
        THEN [table |-> table \ {db_entry[1]}, result |-> TRUE]
        ELSE [table |-> table, result |-> FALSE]

(***************************************************************************)
(* Response schemas: the fields a schema declares and those it requires.   *)
(* Constructing a schema object without a required field raises            *)
(* ValidationError; keyword arguments the schema does not declare are      *)
(* ignored.                                                                *)
(***************************************************************************)
ElectricityBaseFields ==
    {"time_from", "time_to", "usage", "costs", "retailer", "payments", "note"}

ElectricityResponse ==
    [fields   |-> ElectricityBaseFields \cup {"id", "price", "monthly_payment", "difference"},
     required |-> (ElectricityBaseFields \ {"note"})
                     \cup {"id", "price", "monthly_payment", "difference"}]

ElectricityOverallStats ==
    [fields   |-> {"total_usage", "total_costs", "number_of_years", "average_usage"},
     required |-> {"total_usage", "total_costs", "number_of_years", "average_usage"}]

ElectricityPriceTrend ==
    [fields   |-> {"year", "average_price"},
     required |-> {"year", "average_price"}]

ElectricityYearlySummary ==
    [fields   |-> {"year", "total_usage", "total_costs"},
     required |-> {"year", "total_usage", "total_costs"}]

\* Reading an attribute the object does not have raises AttributeError.
HasAttributes(attributes, names) == names \subseteq attributes

\* schema(**kwargs)
Construct(schema, kwargs) ==
    IF schema.required \subseteq DOMAIN kwargs
    THEN [ok |-> TRUE,
          value |-> [f \in schema.fields \cap DOMAIN kwargs |-> kwargs[f]]]
    ELSE [ok |-> FALSE, error |-> "ValidationError"]

(***************************************************************************)
(* Derived-field calculator.                                               *)
(***************************************************************************)
\* calculate_price without its zero guard.
calculate_price_unguarded(costs, usage) == RDiv(costs, usage)

calculate_price(costs, usage) ==
    IF usage # Zero THEN RDiv(costs, usage) ELSE Zero

calculate_monthly_payment(payments) ==
    IF payments # Zero THEN RDiv(payments, IntRat(12)) ELSE Zero

calculate_difference(costs, payments) == RSub(costs, payments)

\* calculate_monthly_payment_dynamic: (payments / days) * 30.44, 0.0 for
\* days <= 0.  No caller in app/operations or app/routers.
calculate_monthly_payment_dynamic(payments, days) ==
    IF days <= 0 THEN Zero
    ELSE LET average_daily_payment == RDiv(payments, IntRat(days))
         IN  RMul(average_daily_payment, Rat(3044, 100))

calculate_electricity_derived_fields(entry) ==
    LET price           == calculate_price(entry.costs, IntRat(entry.usage))
        monthly_payment == calculate_monthly_payment(entry.payments)
        difference      == calculate_difference(entry.payments, entry.costs)
    IN  [price           |-> Round(price, 3),
         monthly_payment |-> Round(monthly_payment, 2),
         difference      |-> Round(difference, 2)]

\* get_days_in_period with both end days counted (an off-by-one variant).
get_days_in_period_inclusive(time_from, time_to) == time_to - time_from + 1

get_days_in_period(time_from, time_to) == time_to - time_from

(***************************************************************************)
(* Aggregation engine, electricity.                                        *)
(***************************************************************************)
\* SkipEntry letting zero-duration entries through.
SkipEntryNegativeOnly(duration_days) == duration_days < 0

\* The guard of both loops: "if duration_days <= 0: continue".
SkipEntry(duration_days) == duration_days <= 0

\* OverallLoop without the duration guard: every row is counted.
RECURSIVE OverallLoopUnfiltered(_, _, _)
OverallLoopUnfiltered(rows, i, acc) ==
    IF i > Len(rows) THEN acc
    ELSE LET entry == rows[i]
         IN  OverallLoopUnfiltered(rows, i + 1,
                [total_usage |-> RAdd(acc.total_usage, IntRat(entry.usage)),
                 total_costs |-> RAdd(acc.total_costs, entry.costs),
                 min_date    |-> IF acc.min_date = <<>> \/ entry.time_from < acc.min_date[1]
                                 THEN <<entry.time_from>> ELSE acc.min_date,
                 max_date    |-> IF acc.max_date = <<>> \/ entry.time_to > acc.max_date[1]
                                 THEN <<entry.time_to>> ELSE acc.max_date])

\* OverallLoop keeping the dates of the first and the last counted row as
\* min_date and max_date, without comparing.
RECURSIVE OverallLoopFirstSeen(_, _, _)
OverallLoopFirstSeen(rows, i, acc) ==
    IF i > Len(rows) THEN acc
    ELSE LET entry         == rows[i]
             duration_days == get_days_in_period(entry.time_from, entry.time_to)
         IN  IF SkipEntry(duration_days)
             THEN OverallLoopFirstSeen(rows, i + 1, acc)
             ELSE OverallLoopFirstSeen(rows, i + 1,
                    [total_usage |-> RAdd(acc.total_usage, IntRat(entry.usage)),
                     total_costs |-> RAdd(acc.total_costs, entry.costs),
                     min_date    |-> IF acc.min_date = <<>>
                                     THEN <<entry.time_from>> ELSE acc.min_date,
                     max_date    |-> <<entry.time_to>>])

\* The loop of get_electricity_overall_stats over rows i..Len(rows).
\* min_date and max_date are <<>> for None, <<d>> for a date.
RECURSIVE OverallLoop(_, _, _)
OverallLoop(rows, i, acc) ==
    IF i > Len(rows) THEN acc
    ELSE LET entry         == rows[i]
             duration_days == get_days_in_period(entry.time_from, entry.time_to)
         IN  IF SkipEntry(duration_days)
             THEN OverallLoop(rows, i + 1, acc)
             ELSE OverallLoop(rows, i + 1,
                    [total_usage |-> RAdd(acc.total_usage, IntRat(entry.usage)),
                     total_costs |-> RAdd(acc.total_costs, entry.costs),
                     min_date    |-> IF acc.min_date = <<>> \/ entry.time_from < acc.min_date[1]
                                     THEN <<entry.time_from>> ELSE acc.min_date,
                     max_date    |-> IF acc.max_date = <<>> \/ entry.time_to > acc.max_date[1]
                                     THEN <<entry.time_to>> ELSE acc.max_date])

\* SpanYears with a year of 365 days.
SpanYears365(total_span_days) == Rat(total_span_days, 365)

\* total_span_days / 365.25
SpanYears(total_span_days) == Rat(total_span_days * 4, 1461)

\* The keyword arguments get_electricity_overall_stats hands to the
\* ElectricityOverallStats constructor.
ElectricityOverallStatsKwargs(rows) ==
    LET acc == OverallLoop(rows, 1,
                   [total_usage |-> Zero, total_costs |-> Zero,
                    min_date |-> <<>>, max_date |-> <<>>])
    IN  IF acc.min_date = <<>> \/ acc.max_date = <<>>
        THEN [total_usage          |-> Zero,
              total_costs          |-> Zero,
              number_of_years      |-> Zero,
              average_yearly_usage |-> Zero]
        ELSE LET total_span_days == acc.max_date[1] - acc.min_date[1]
                 number_of_years ==
                     IF total_span_days > 0 THEN SpanYears(total_span_days) ELSE Zero
                 average_yearly_usage ==
                     IF RLess(Zero, number_of_years)
                     THEN RDiv(acc.total_usage, number_of_years) ELSE Zero
             IN  [total_usage          |-> Round(acc.total_usage, 2),
                  total_costs          |-> Round(acc.total_costs, 2),
                  number_of_years      |-> Round(number_of_years, 2),
                  average_yearly_usage |-> Round(average_yearly_usage, 2)]

get_electricity_overall_stats(table) ==
    Construct(ElectricityOverallStats, ElectricityOverallStatsKwargs(Rows(table)))

\* DaysInSegment with the segment's end day counted too (an off-by-one variant).
DaysInSegmentInclusive(current_date, segment_end) == segment_end - current_date + 1

\* (segment_end - current_date).days
DaysInSegment(current_date, segment_end) == segment_end - current_date

\* The segment running to the end of the entry, the year boundary ignored.
SegmentEndUnsplit(current_date, entry_time_to) == entry_time_to

\* end_of_year = date(year, 12, 31);
\* segment_end = min(entry_time_to, end_of_year + timedelta(days=1))
SegmentEnd(current_date, entry_time_to) ==
    LET end_of_year == Date(YearOf(current_date), 12, 31)
    IN  Min(entry_time_to, end_of_year + 1)

\* The iterations of the while loop for one entry, at most `limit` of them:
\* current_date and segment_end of each.
RECURSIVE ProrateIterations(_, _, _)
ProrateIterations(current_date, entry_time_to, limit) ==
    IF ~(current_date < entry_time_to) \/ limit = 0 THEN <<>>
    ELSE LET segment_end == SegmentEnd(current_date, entry_time_to)
         IN  <<[current_date |-> current_date, segment_end |-> segment_end]>>
                 \o ProrateIterations(segment_end, entry_time_to, limit - 1)

\* The while loop of get_electricity_yearly_summary for one entry:
\* yearly_data maps a year to its running totals.
RECURSIVE ProrateLoop(_, _, _, _, _)
ProrateLoop(yearly_data, current_date, entry_time_to, daily_usage_rate, daily_costs_rate) ==
    IF ~(current_date < entry_time_to) THEN yearly_data
    ELSE LET year        == YearOf(current_date)
             segment_end == SegmentEnd(current_date, entry_time_to)
             days_in_current_year_for_entry == DaysInSegment(current_date, segment_end)
             present     == IF year \in DOMAIN yearly_data
                            THEN yearly_data
                            ELSE yearly_data @@
                                 (year :> [total_usage |-> Zero,
                                           total_costs |-> Zero,
                                           total_days  |-> 0])
             added       == [present EXCEPT ![year] =
                               [total_usage |-> RAdd(@.total_usage,
                                    RMul(daily_usage_rate, IntRat(days_in_current_year_for_entry))),
                                total_costs |-> RAdd(@.total_costs,
                                    RMul(daily_costs_rate, IntRat(days_in_current_year_for_entry))),
                                total_days  |-> @.total_days + days_in_current_year_for_entry]]
         IN  ProrateLoop(added, segment_end, entry_time_to,
                         daily_usage_rate, daily_costs_rate)

\* The for loop of get_electricity_yearly_summary over rows i..Len(rows).
RECURSIVE YearlyLoop(_, _, _)
YearlyLoop(rows, i, yearly_data) ==
    IF i > Len(rows) THEN yearly_data
    ELSE LET entry         == rows[i]
             duration_days == get_days_in_period(entry.time_from, entry.time_to)
         IN  IF SkipEntry(duration_days)
             THEN YearlyLoop(rows, i + 1, yearly_data)
             ELSE YearlyLoop(rows, i + 1,
                     ProrateLoop(yearly_data, entry.time_from, entry.time_to,
                                 RDiv(IntRat(entry.usage), IntRat(duration_days)),
                                 RDiv(entry.costs, IntRat(duration_days))))

\* yearly_data as the loop leaves it; <<>> is the empty dict.
YearlyData(rows) == YearlyLoop(rows, 1, <<>>)

\* YearOrder listing the years newest first.
YearOrderDescending(years) ==
    LET asc == Sorted(years) IN [k \in 1..Len(asc) |-> asc[Len(asc) + 1 - k]]

\* The order in which the summary lists the years: sorted(yearly_data.keys()).
YearOrder(years) == Sorted(years)

get_electricity_yearly_summary(table) ==
    LET yearly_data == YearlyData(Rows(table))
        years       == YearOrder(DOMAIN yearly_data)
    IN  [k \in 1..Len(years) |->
            Construct(ElectricityYearlySummary,
                [year        |-> years[k],
                 total_usage |-> Round(yearly_data[years[k]].total_usage, 2),
                 total_costs |-> Round(yearly_data[years[k]].total_costs, 2)])]

RECURSIVE RSum(_)
RSum(seq) == IF seq = <<>> THEN Zero ELSE RAdd(seq[1], RSum(Tail(seq)))

\* SQL avg() over the rows of one group.
Avg(seq) == RDiv(RSum(seq), IntRat(Len(seq)))

\* The price trend taking sum(costs) / sum(usage) of a year for its average.
get_electricity_price_trend_weighted(table) ==
    LET rows     == Rows(table)
        filtered == SelectSeq(rows, LAMBDA r : r.usage > 0)
        years    == Sorted({YearOf(filtered[i].time_from) : i \in 1..Len(filtered)})
        group(y) == SelectSeq(filtered, LAMBDA r : YearOf(r.time_from) = y)
        costs(g) == RSum([i \in 1..Len(g) |-> g[i].costs])
        usage(g) == RSum([i \in 1..Len(g) |-> IntRat(g[i].usage)])
    IN  [k \in 1..Len(years) |->
            Construct(ElectricityPriceTrend,
                [year          |-> years[k],
                 average_price |->
                     Round(RDiv(costs(group(years[k])), usage(group(years[k]))), 3)])]

\* get_electricity_price_trend: WHERE usage > 0 GROUP BY year(time_from)
\* ORDER BY year, avg(costs / usage).
get_electricity_price_trend(table) ==
    LET rows     == Rows(table)
        filtered == SelectSeq(rows, LAMBDA r : r.usage > 0)
        years    == Sorted({YearOf(filtered[i].time_from) : i \in 1..Len(filtered)})
        group(y) == SelectSeq(filtered, LAMBDA r : YearOf(r.time_from) = y)
        price(g) == [i \in 1..Len(g) |-> RDiv(g[i].costs, IntRat(g[i].usage))]
    IN  [k \in 1..Len(years) |->
            Construct(ElectricityPriceTrend,
                [year          |-> years[k],
                 average_price |-> Round(Avg(price(group(years[k]))), 3)])]

(***************************************************************************)
(* Requests the clients send (ElectricityCreate payloads).                 *)
(***************************************************************************)
ElectricityCreate(time_from, time_to, usage, costs, payments) ==
    [time_from |-> time_from, time_to |-> time_to, usage |-> usage,
     costs |-> costs, retailer |-> "retailer", payments |-> payments,
     note |-> "None"]

\* 2023-11-15 .. 2024-02-10: 87 days across a year boundary.
AcrossNewYear ==
    ElectricityCreate(Date(2023, 11, 15), Date(2024, 2, 10), 870, IntRat(261), IntRat(240))

\* The calendar year 2022 (end exclusive).
Year2022 ==
    ElectricityCreate(Date(2022, 1, 1), Date(2023, 1, 1), 1000, IntRat(300), IntRat(360))

\* The calendar year 2023 (end exclusive).
Year2023 ==
    ElectricityCreate(Date(2023, 1, 1), Date(2024, 1, 1), 1200, IntRat(400), IntRat(380))

\* 435 days touching 2022, 2023 and 2024.
ThreeYears ==
    ElectricityCreate(Date(2022, 12, 1), Date(2024, 2, 9), 1000, IntRat(290), Rat(601, 2))

\* No consumption, a standing charge only, nothing paid.
ZeroUsage ==
    ElectricityCreate(Date(2024, 3, 1), Date(2024, 5, 27), 0, IntRat(50), Zero)

\* time_to = time_from, before every other period.
ZeroDuration ==
    ElectricityCreate(Date(2021, 5, 1), Date(2021, 5, 1), 500, IntRat(100), IntRat(90))

\* time_to < time_from, its time_to after every other period.
NegativeDuration ==
    ElectricityCreate(Date(2025, 3, 1), Date(2024, 12, 1), 100, IntRat(50), IntRat(60))

ElectricityInputs ==
    {AcrossNewYear, Year2022, Year2023, ThreeYears, ZeroUsage, ZeroDuration,
     NegativeDuration}

EntryIds == 1..MaxId

(***************************************************************************)
(* HTTP handlers (routers/electricity.py).  A handler that raises answers  *)
(* 500 and names the exception.                                            *)
(***************************************************************************)
Respond(op, request, status, body) ==
    [op |-> op, request |-> request, status |-> status, error |-> "", body |-> body]

Fail(op, request, error) ==
    [op |-> op, request |-> request, status |-> 500, error |-> error, body |-> <<>>]

NotFound(op, request) ==
    [op |-> op, request |-> request, status |-> 404, error |-> "", body |-> <<>>]

\* ElectricityResponse(id=..., ..., **derived_fields)
\* A ZeroDivisionError raised while deriving the fields propagates.
ElectricityResponseOf(db_entry) ==
    LET derived_fields == calculate_electricity_derived_fields(db_entry)
    IN  IF \E f \in DOMAIN derived_fields : Raised(derived_fields[f])
        THEN [ok |-> FALSE, error |-> "ZeroDivisionError"]
        ELSE Construct(ElectricityResponse, db_entry @@ derived_fields)

\* A list of constructed objects: the list when every constructor succeeded.
AllOk(objs) == \A i \in 1..Len(objs) : objs[i].ok

Values(objs) == [i \in 1..Len(objs) |-> objs[i].value]

Init ==
    /\ electricity = {}
    /\ oil = {}
    /\ oil_fill_level = {}
    /\ water = {}
    /\ sessions = [request \in Requests |-> "idle"]
    /\ response = Respond("init", <<>>, 0, <<>>)

\* POST /electricity/entries
CreateElectricityEntry(entry) ==
    /\ NextId(electricity) <= MaxId
    /\ LET created == create_entry(electricity, entry)
           answer  == ElectricityResponseOf(created.db_entry)
       IN  /\ electricity' = created.table
           /\ response' = IF answer.ok
                          THEN Respond("create_electricity_entry", entry, 201, answer.value)
                          ELSE Fail("create_electricity_entry", entry, answer.error)
    /\ UNCHANGED <<oil, water, oil_fill_level, sessions>>

\* GET /electricity/entries
ReadElectricityEntries ==
    /\ LET entries == get_entries(electricity)
           answer  == [i \in 1..Len(entries) |-> ElectricityResponseOf(entries[i])]
       IN  response' =
             IF AllOk(answer)
             THEN Respond("read_electricity_entries", <<>>, 200,
                          SortedDescending(Values(answer), "time_from"))
             ELSE Fail("read_electricity_entries", <<>>,
                       answer[CHOOSE i \in 1..Len(answer) :
                                 ~answer[i].ok /\ \A j \in 1..(i - 1) : answer[j].ok].error)
    /\ UNCHANGED <<electricity, oil, water, oil_fill_level, sessions>>

\* GET /electricity/entries/{entry_id}
ReadElectricityEntry(entry_id) ==
    /\ LET db_entry == get_entry(electricity, entry_id)
       IN  response' =
             IF db_entry = <<>>
             THEN NotFound("read_electricity_entry", entry_id)
             ELSE LET answer == ElectricityResponseOf(db_entry[1])
                  IN  IF answer.ok
                      THEN Respond("read_electricity_entry", entry_id, 200, answer.value)
                      ELSE Fail("read_electricity_entry", entry_id, answer.error)
    /\ UNCHANGED <<electricity, oil, water, oil_fill_level, sessions>>

\* DELETE /electricity/entries/{entry_id}
DeleteElectricityEntry(entry_id) ==
    LET deleted == delete_entry(electricity, entry_id)
    IN  /\ electricity' = deleted.table
        /\ response' = IF ~deleted.result
                       THEN NotFound("delete_electricity_entry", entry_id)
                       ELSE Respond("delete_electricity_entry", entry_id, 204, <<>>)
        /\ UNCHANGED <<oil, water, oil_fill_level, sessions>>

\* GET /electricity/stats/overall
GetElectricityOverallStats ==
    /\ LET answer == get_electricity_overall_stats(electricity)
       IN  response' = IF answer.ok
                       THEN Respond("get_electricity_overall_stats", <<>>, 200, answer.value)
                       ELSE Fail("get_electricity_overall_stats", <<>>, answer.error)
    /\ UNCHANGED <<electricity, oil, water, oil_fill_level, sessions>>

\* GET /electricity/stats/yearly_summary
GetElectricityYearlySummary ==
    /\ LET answer == get_electricity_yearly_summary(electricity)
       IN  response' = IF AllOk(answer)
                       THEN Respond("get_electricity_yearly_summary", <<>>, 200, Values(answer))
                       ELSE Fail("get_electricity_yearly_summary", <<>>, "ValidationError")
    /\ UNCHANGED <<electricity, oil, water, oil_fill_level, sessions>>

\* GET /electricity/stats/price_trend
GetElectricityPriceTrend ==
    /\ LET answer == get_electricity_price_trend(electricity)
       IN  response' = IF AllOk(answer)
                       THEN Respond("get_electricity_price_trend", <<>>, 200, Values(answer))
                       ELSE Fail("get_electricity_price_trend", <<>>, "ValidationError")
    /\ UNCHANGED <<electricity, oil, water, oil_fill_level, sessions>>

Next ==
    \/ \E entry \in ElectricityInputs : CreateElectricityEntry(entry)
    \/ \E entry_id \in EntryIds : ReadElectricityEntry(entry_id)
    \/ \E entry_id \in EntryIds : DeleteElectricityEntry(entry_id)
    \/ GetElectricityOverallStats
    \/ GetElectricityYearlySummary
    \/ GetElectricityPriceTrend

Spec == Init /\ [][Next]_vars

\* Entries are recorded, and the listing and the two aggregating statistics
\* requested; no entry is deleted, so the rows are numbered 1..n.
NextElectricityReads ==
    \/ \E entry \in ElectricityInputs : CreateElectricityEntry(entry)
    \/ ReadElectricityEntries
    \/ GetElectricityOverallStats
    \/ GetElectricityYearlySummary

SpecElectricityReads == Init /\ [][NextElectricityReads]_vars

(***************************************************************************)
(* The derived-field calculator on its own: the pure functions applied to  *)
(* inputs drawn from small sets.  Status 0: a function call, not a request.*)
(***************************************************************************)
CostValues == {Zero, Rat(1, 100), IntRat(1), IntRat(100), IntRat(261), IntRat(300), IntRat(-50)}

QuantityValues == {0, 1, 3, 7, 870, 1000}

PaymentValues == {Zero, IntRat(90), IntRat(240), Rat(601, 2), IntRat(360)}

Returned(op, request, value) ==
    [op |-> op, request |-> request, status |-> 0, error |-> "", body |-> value]

Threw(op, request, error) ==
    [op |-> op, request |-> request, status |-> 0, error |-> error, body |-> <<>>]

CalculatePrice(costs, usage) ==
    /\ LET request == [costs |-> costs, usage |-> usage]
           price   == calculate_price(costs, IntRat(usage))
       IN  response' = IF Raised(price)
                       THEN Threw("calculate_price", request, "ZeroDivisionError")
                       ELSE Returned("calculate_price", request, price)
    /\ UNCHANGED <<electricity, oil, water, oil_fill_level, sessions>>

CalculateDifference(costs, payments) ==
    /\ response' = Returned("calculate_difference",
                            [costs |-> costs, payments |-> payments],
                            calculate_difference(costs, payments))
    /\ UNCHANGED <<electricity, oil, water, oil_fill_level, sessions>>

CalculateElectricityDerivedFields(entry) ==
    /\ LET derived_fields == calculate_electricity_derived_fields(entry)
       IN  response' =
             IF \E f \in DOMAIN derived_fields : Raised(derived_fields[f])
             THEN Threw("calculate_electricity_derived_fields", entry, "ZeroDivisionError")
             ELSE Returned("calculate_electricity_derived_fields", entry, derived_fields)
    /\ UNCHANGED <<electricity, oil, water, oil_fill_level, sessions>>

NextCalc ==
    \/ \E costs \in CostValues, usage \in QuantityValues : CalculatePrice(costs, usage)
    \/ \E costs \in CostValues, payments \in PaymentValues :
          CalculateDifference(costs, payments)
    \/ \E costs \in CostValues, usage \in QuantityValues, payments \in PaymentValues :
          CalculateElectricityDerivedFields(
              [id |-> 1] @@ ElectricityCreate(Date(2023, 11, 15), Date(2024, 2, 10),
                                              usage, costs, payments))

SpecCalc == Init /\ [][NextCalc]_vars

(***************************************************************************)
(* Oil deliveries (operations/oil.py, routers/oil.py).                     *)
(***************************************************************************)
OilBaseFields == {"date", "volume", "costs", "retailer", "note"}

OilResponse ==
    [fields   |-> OilBaseFields \cup {"id", "price", "year_usage"},
     required |-> (OilBaseFields \ {"note"}) \cup {"id", "price", "year_usage"}]

OilOverallStats ==
    [fields   |-> {"total_volume", "total_costs", "number_of_years", "average_volume"},
     required |-> {"total_volume", "total_costs", "number_of_years", "average_volume"}]

OilPriceTrend ==
    [fields   |-> {"year", "average_price"},
     required |-> {"year", "average_price"}]

OilYearlySummary ==
    [fields   |-> {"year", "total_volume", "total_costs"},
     required |-> {"year", "total_volume", "total_costs"}]

\* price = calculate_price(costs, volume); year_usage = float(entry.volume)
calculate_oil_derived_fields(entry) ==
    LET price      == calculate_price(entry.costs, IntRat(entry.volume))
        year_usage == IntRat(entry.volume)
    IN  [price      |-> Round(price, 3),
         year_usage |-> Round(year_usage, 2)]

\* count(distinct(strftime("%Y", date))) counting every row as a year of its own.
CountRowsAsYears(rows) == Len(rows)

\* count(distinct(strftime("%Y", date)))
CountDistinctYears(rows) == Cardinality({YearOf(rows[i].date) : i \in 1..Len(rows)})

\* get_oil_overall_stats: sum() or 0, count(distinct year) or 1.
get_oil_overall_stats(table) ==
    LET rows            == Rows(table)
        total_volume    == RSum([i \in 1..Len(rows) |-> IntRat(rows[i].volume)])
        total_costs     == RSum([i \in 1..Len(rows) |-> rows[i].costs])
        counted         == CountDistinctYears(rows)
        number_of_years == IF counted # 0 THEN counted ELSE 1
        average_volume  == RDiv(total_volume, IntRat(number_of_years))
    IN  Construct(OilOverallStats,
            [total_volume    |-> Round(total_volume, 2),
             total_costs     |-> Round(total_costs, 2),
             number_of_years |-> number_of_years,
             average_volume  |-> Round(average_volume, 2)])

\* get_oil_yearly_summary: GROUP BY year(date) ORDER BY year, sum(volume),
\* sum(costs).
get_oil_yearly_summary(table) ==
    LET rows     == Rows(table)
        years    == Sorted({YearOf(rows[i].date) : i \in 1..Len(rows)})
        group(y) == SelectSeq(rows, LAMBDA r : YearOf(r.date) = y)
    IN  [k \in 1..Len(years) |->
            LET g == group(years[k])
            IN  Construct(OilYearlySummary,
                    [year         |-> years[k],
                     total_volume |-> Round(RSum([i \in 1..Len(g) |-> IntRat(g[i].volume)]), 2),
                     total_costs  |-> Round(RSum([i \in 1..Len(g) |-> g[i].costs]), 2)])]

\* get_oil_price_trend: WHERE volume > 0 GROUP BY year(date) ORDER BY year,
\* avg(costs / volume).
get_oil_price_trend(table) ==
    LET rows     == Rows(table)
        filtered == SelectSeq(rows, LAMBDA r : r.volume > 0)
        years    == Sorted({YearOf(filtered[i].date) : i \in 1..Len(filtered)})
        group(y) == SelectSeq(filtered, LAMBDA r : YearOf(r.date) = y)
        price(g) == [i \in 1..Len(g) |-> RDiv(g[i].costs, IntRat(g[i].volume))]
    IN  [k \in 1..Len(years) |->
            Construct(OilPriceTrend,
                [year          |-> years[k],
                 average_price |-> Round(Avg(price(group(years[k]))), 3)])]

(***************************************************************************)
(* Oil deliveries the clients record (OilCreate payloads).                 *)
(***************************************************************************)
OilCreate(date, volume, costs) ==
    [date |-> date, volume |-> volume, costs |-> costs, retailer |-> "retailer",
     note |-> "None"]

\* Two deliveries in 2023.
Spring2023 == OilCreate(Date(2023, 3, 1), 200, IntRat(300))

Autumn2023 == OilCreate(Date(2023, 9, 1), 150, IntRat(250))

\* One delivery in 2022.
Summer2022 == OilCreate(Date(2022, 6, 15), 1000, IntRat(900))

\* A call-out fee: nothing delivered, the only record of 2024.
NoDelivery2024 == OilCreate(Date(2024, 1, 10), 0, IntRat(40))

\* Delivered on the last day of 2022.
NewYearsEve2022 == OilCreate(Date(2022, 12, 31), 300, IntRat(333))

OilInputs == {Spring2023, Autumn2023, Summer2022, NoDelivery2024, NewYearsEve2022}

\* OilResponse(id=..., ..., **derived_fields)
OilResponseOf(db_entry) ==
    LET derived_fields == calculate_oil_derived_fields(db_entry)
    IN  IF \E f \in DOMAIN derived_fields : Raised(derived_fields[f])
        THEN [ok |-> FALSE, error |-> "ZeroDivisionError"]
        ELSE Construct(OilResponse, db_entry @@ derived_fields)

\* oil.create_oil_entry(db, schema), called directly: the function
\* routers/oil.py defines for POST /oil/entries is not bound to the route.
CreateOilEntry(entry) ==
    /\ NextId(oil) <= MaxId
    /\ LET created == create_entry(oil, entry)
       IN  /\ oil' = created.table
           /\ response' = Returned("create_oil_entry", entry, created.db_entry)
    /\ UNCHANGED <<electricity, water, oil_fill_level, sessions>>

\* GET /oil/entries
ReadOilEntries ==
    /\ LET entries == get_entries(oil)
           answer  == [i \in 1..Len(entries) |-> OilResponseOf(entries[i])]
       IN  response' = IF AllOk(answer)
                       THEN Respond("read_oil_entries", <<>>, 200, Values(answer))
                       ELSE Fail("read_oil_entries", <<>>, "ValidationError")
    /\ UNCHANGED <<electricity, oil, water, oil_fill_level, sessions>>

\* GET /oil/entries/{entry_id}
ReadOilEntry(entry_id) ==
    /\ LET db_entry == get_entry(oil, entry_id)
       IN  response' =
             IF db_entry = <<>>
             THEN NotFound("read_oil_entry", entry_id)
             ELSE LET answer == OilResponseOf(db_entry[1])
                  IN  IF answer.ok
                      THEN Respond("read_oil_entry", entry_id, 200, answer.value)
                      ELSE Fail("read_oil_entry", entry_id, answer.error)
    /\ UNCHANGED <<electricity, oil, water, oil_fill_level, sessions>>

\* DELETE /oil/entries/{entry_id}
DeleteOilEntry(entry_id) ==
    LET deleted == delete_entry(oil, entry_id)
    IN  /\ oil' = deleted.table
        /\ response' = IF ~deleted.result
                       THEN NotFound("delete_oil_entry", entry_id)
                       ELSE Respond("delete_oil_entry", entry_id, 204, <<>>)
        /\ UNCHANGED <<electricity, water, oil_fill_level, sessions>>

\* GET /oil/stats/overall answered, the rows it summed then dropped from the
\* table.
GetOilOverallStatsDraining ==
    /\ LET answer == get_oil_overall_stats(oil)
       IN  response' = IF answer.ok
                       THEN Respond("get_oil_overall_stats", <<>>, 200, answer.value)
                       ELSE Fail("get_oil_overall_stats", <<>>, answer.error)
    /\ oil' = {}
    /\ UNCHANGED <<electricity, water, oil_fill_level, sessions>>

\* GET /oil/stats/overall
GetOilOverallStats ==
    /\ LET answer == get_oil_overall_stats(oil)
       IN  response' = IF answer.ok
                       THEN Respond("get_oil_overall_stats", <<>>, 200, answer.value)
                       ELSE Fail("get_oil_overall_stats", <<>>, answer.error)
    /\ UNCHANGED <<electricity, oil, water, oil_fill_level, sessions>>

\* GET /oil/stats/yearly_summary
GetOilYearlySummary ==
    /\ LET answer == get_oil_yearly_summary(oil)
       IN  response' = IF AllOk(answer)
                       THEN Respond("get_oil_yearly_summary", <<>>, 200, Values(answer))
                       ELSE Fail("get_oil_yearly_summary", <<>>, "ValidationError")
    /\ UNCHANGED <<electricity, oil, water, oil_fill_level, sessions>>

\* GET /oil/stats/price_trend answered, the rows its filter rejects then
\* deleted from the table.
GetOilPriceTrendPurging ==
    /\ LET answer == get_oil_price_trend(oil)
       IN  response' = IF AllOk(answer)
                       THEN Respond("get_oil_price_trend", <<>>, 200, Values(answer))
                       ELSE Fail("get_oil_price_trend", <<>>, "ValidationError")
    /\ oil' = {r \in oil : r.volume > 0}
    /\ UNCHANGED <<electricity, water, oil_fill_level, sessions>>

\* GET /oil/stats/price_trend
GetOilPriceTrend ==
    /\ LET answer == get_oil_price_trend(oil)
       IN  response' = IF AllOk(answer)
                       THEN Respond("get_oil_price_trend", <<>>, 200, Values(answer))
                       ELSE Fail("get_oil_price_trend", <<>>, "ValidationError")
    /\ UNCHANGED <<electricity, oil, water, oil_fill_level, sessions>>

\* The routes registered on oil_router: the handlers whose decorator is
\* applied with @.  routers/oil.py calls oil_router.post("/entries", ...) as
\* a statement of its own, so create_oil_entry is bound to no route.
OilRoutes ==
    {<<"GET", "/entries">>, <<"GET", "/entries/{entry_id}">>,
     <<"DELETE", "/entries/{entry_id}">>, <<"GET", "/stats/overall">>,
     <<"GET", "/stats/yearly_summary">>, <<"GET", "/stats/price_trend">>,
     <<"POST", "/fill-level-entries">>, <<"GET", "/fill-level-entries">>,
     <<"DELETE", "/fill-level-entries/{entry_id}">>}

\* The answer to a request whose path is routed for other methods only.
MethodNotAllowed(op, request) ==
    [op |-> op, request |-> request, status |-> 405, error |-> "", body |-> <<>>]

\* POST /oil/entries
PostOilEntries(entry) ==
    IF <<"POST", "/entries">> \in OilRoutes
    THEN /\ NextId(oil) <= MaxId
         /\ LET created == create_entry(oil, entry)
                answer  == OilResponseOf(created.db_entry)
            IN  /\ oil' = created.table
                /\ response' = IF answer.ok
                               THEN Respond("post_oil_entries", entry, 201, answer.value)
                               ELSE Fail("post_oil_entries", entry, answer.error)
         /\ UNCHANGED <<electricity, water, oil_fill_level, sessions>>
    ELSE /\ response' = MethodNotAllowed("post_oil_entries", entry)
         /\ UNCHANGED <<electricity, oil, water, oil_fill_level, sessions>>

NextOil ==
    \/ \E entry \in OilInputs : CreateOilEntry(entry)
    \/ \E entry \in OilInputs : PostOilEntries(entry)
    \/ ReadOilEntries
    \/ \E entry_id \in EntryIds : ReadOilEntry(entry_id)
    \/ \E entry_id \in EntryIds : DeleteOilEntry(entry_id)
    \/ GetOilOverallStats
    \/ GetOilYearlySummary
    \/ GetOilPriceTrend

SpecOil == Init /\ [][NextOil]_vars

(***************************************************************************)
(* Oil tank fill levels (operations/oil.py, routers/oil.py).               *)
(***************************************************************************)
OilFillLevelsResponse ==
    [fields   |-> {"id", "date", "level"},
     required |-> {"id", "date", "level"}]

\* The functions the module app.operations.oil defines.
OilOperations ==
    {"create_oil_entry", "get_oil_entry", "get_oil_entries", "delete_oil_entry",
     "calculate_oil_derived_fields", "get_oil_overall_stats",
     "get_oil_yearly_summary", "get_oil_price_trend",
     "create_oil_fill_level_entry", "get_oil_fill_level_entries"}

OilFillLevelsCreate(date, level) == [date |-> date, level |-> level]

\* Three readings: a full tank, a quarter left, the tank empty.
OilFillLevelInputs ==
    {OilFillLevelsCreate(Date(2023, 3, 2), IntRat(100)),
     OilFillLevelsCreate(Date(2023, 8, 31), Rat(51, 2)),
     OilFillLevelsCreate(Date(2024, 1, 10), Zero)}

\* POST /oil/fill-level-entries
CreateOilFillLevelEntry(entry) ==
    /\ NextId(oil_fill_level) <= MaxId
    /\ LET created == create_entry(oil_fill_level, entry)
           answer  == Construct(OilFillLevelsResponse, created.db_entry)
       IN  /\ oil_fill_level' = created.table
           /\ response' = IF answer.ok
                          THEN Respond("create_oil_fill_level_entry", entry, 201,
                                       answer.value)
                          ELSE Fail("create_oil_fill_level_entry", entry, answer.error)
    /\ UNCHANGED <<electricity, oil, water, sessions>>

\* GET /oil/fill-level-entries
ReadOilFillLevelEntries ==
    /\ LET entries == get_entries(oil_fill_level)
           answer  == [i \in 1..Len(entries) |->
                          Construct(OilFillLevelsResponse, entries[i])]
       IN  response' = IF AllOk(answer)
                       THEN Respond("read_oil_fill_level_entries", <<>>, 200, Values(answer))
                       ELSE Fail("read_oil_fill_level_entries", <<>>, "ValidationError")
    /\ UNCHANGED <<electricity, oil, oil_fill_level, water, sessions>>

\* DELETE /oil/fill-level-entries/{entry_id}: the handler looks up
\* oil.delete_oil_fill_level_entry before it calls it.
DeleteOilFillLevelEntry(entry_id) ==
    IF ~HasAttributes(OilOperations, {"delete_oil_fill_level_entry"})
    THEN /\ response' = Fail("delete_oil_fill_level_entry", entry_id, "AttributeError")
         /\ UNCHANGED <<electricity, oil, oil_fill_level, water, sessions>>
    ELSE LET deleted == delete_entry(oil_fill_level, entry_id)
         IN  /\ oil_fill_level' = deleted.table
             /\ response' = IF ~deleted.result
                            THEN NotFound("delete_oil_fill_level_entry", entry_id)
                            ELSE Respond("delete_oil_fill_level_entry", entry_id, 204, <<>>)
             /\ UNCHANGED <<electricity, oil, water, sessions>>

NextOilFillLevel ==
    \/ \E entry \in OilFillLevelInputs : CreateOilFillLevelEntry(entry)
    \/ ReadOilFillLevelEntries
    \/ \E entry_id \in EntryIds : DeleteOilFillLevelEntry(entry_id)

SpecOilFillLevel == Init /\ [][NextOilFillLevel]_vars

(***************************************************************************)
(* Water bills (operations/water.py, routers/water.py).                    *)
(***************************************************************************)
\* The columns of the water table (models.py).
WaterDB ==
    {"id", "year", "volume_water", "volume_wastewater", "volume_rainwater",
     "costs_water", "costs_wastewater", "costs_rainwater", "payments",
     "fixed_price", "note"}

WaterBaseFields == WaterDB \ {"id"}

WaterResponse ==
    [fields   |-> WaterBaseFields
                     \cup {"id", "price_water", "price_wastewater", "price_rainwater",
                           "monthly_payment", "difference"},
     required |-> (WaterBaseFields \ {"note"})
                     \cup {"id", "price_water", "price_wastewater", "price_rainwater",
                           "monthly_payment", "difference"}]

WaterOverallStats ==
    [fields   |-> {"total_volume", "total_costs", "number_of_years", "average_volume"},
     required |-> {"total_volume", "total_costs", "number_of_years", "average_volume"}]

WaterYearlySummary ==
    [fields   |-> {"year", "volume_water", "volume_wastewater", "costs_water",
                   "costs_wastewater"},
     required |-> {"year", "volume_water", "volume_wastewater", "costs_water",
                   "costs_wastewater"}]

WaterPriceTrend ==
    [fields   |-> {"year", "price_water", "price_wastewater", "price_rainwater",
                   "price_fixed"},
     required |-> {"year", "price_water", "price_wastewater", "price_rainwater",
                   "price_fixed"}]

\* calculate_water_derived_fields: the attributes it reads off the entry,
\* then the nine derived values.
calculate_water_derived_fields(entry) ==
    IF ~HasAttributes(DOMAIN entry,
            {"costs_water", "volume_water", "costs_wastewater", "volume_wastewater",
             "costs_rainwater", "volume_rainwater", "payments_water",
             "payments_wastewater", "payments_rainwater"})
    THEN [ok |-> FALSE, error |-> "AttributeError"]
    ELSE LET price_water == calculate_price(entry.costs_water, IntRat(entry.volume_water))
             price_wastewater ==
                 calculate_price(entry.costs_wastewater, IntRat(entry.volume_wastewater))
             price_rainwater ==
                 calculate_price(entry.costs_rainwater, IntRat(entry.volume_rainwater))
             monthly_payment_water == calculate_monthly_payment(entry.payments_water)
             monthly_payment_wastewater == calculate_monthly_payment(entry.costs_wastewater)
             monthly_payment_rainwater == calculate_monthly_payment(entry.costs_rainwater)
             difference_water == calculate_difference(entry.payments_water, entry.costs_water)
             difference_wastewater ==
                 calculate_difference(entry.payments_wastewater, entry.costs_wastewater)
             difference_rainwater ==
                 calculate_difference(entry.payments_rainwater, entry.costs_rainwater)
         IN  [ok |-> TRUE,
              value |->
                [price_water                |-> Round(price_water, 3),
                 price_wastewater           |-> Round(price_wastewater, 3),
                 price_rainwater            |-> Round(price_rainwater, 3),
                 monthly_payment_water      |-> Round(monthly_payment_water, 2),
                 monthly_payment_wastewater |-> Round(monthly_payment_wastewater, 2),
                 monthly_payment_rainwater  |-> Round(monthly_payment_rainwater, 2),
                 difference_water           |-> Round(difference_water, 2),
                 difference_wastewater      |-> Round(difference_wastewater, 2),
                 difference_rainwater       |-> Round(difference_rainwater, 2)]]

\* The integer columns of the water table.
WaterIntColumns == {"id", "year", "volume_water", "volume_wastewater", "volume_rainwater"}

\* A column's value as a number: an int column read as a rational.
Number(row, column) ==
    IF column \in WaterIntColumns THEN IntRat(row[column]) ELSE row[column]

\* func.sum(column) over rows.
SumColumn(rows, column) == RSum([i \in 1..Len(rows) |-> Number(rows[i], column)])

\* get_water_overall_stats: the columns its queries name, then the sums,
\* count(distinct(year)) or 1, the averages and WaterOverallStats(...).
get_water_overall_stats(table) ==
    IF ~HasAttributes(WaterDB,
            {"volume_water", "volume_wastewater", "volume_rainwater", "costs_water",
             "costs_wastewater", "costs_rainwater", "payments_water",
             "payments_wastewater", "payments_rainwater", "fixed_price", "year"})
    THEN [ok |-> FALSE, error |-> "AttributeError"]
    ELSE LET rows == Rows(table)
             total(column) == SumColumn(rows, column)
             counted == Cardinality({rows[i].year : i \in 1..Len(rows)})
             number_of_years == IF counted # 0 THEN counted ELSE 1
             average(column) == RDiv(total(column), IntRat(number_of_years))
             total_costs ==
                 RAdd(RAdd(total("costs_water"), total("costs_wastewater")),
                      RAdd(total("costs_rainwater"), total("fixed_price")))
         IN  Construct(WaterOverallStats,
               [total_volume_water      |-> Round(total("volume_water"), 2),
                total_volume_wastewater |-> Round(total("volume_wastewater"), 2),
                total_volume_rainwater  |-> Round(total("volume_rainwater"), 2),
                total_costs_water       |-> Round(total("costs_water"), 2),
                total_costs_wastewater  |-> Round(total("costs_wastewater"), 2),
                total_costs_rainwater   |-> Round(total("costs_rainwater"), 2),
                total_payments_water    |-> Round(total("payments_water"), 2),
                total_payments_wastewater |-> Round(total("payments_wastewater"), 2),
                total_payments_rainwater  |-> Round(total("payments_rainwater"), 2),
                total_difference_water  |->
                    Round(calculate_difference(total("payments_water"),
                                               total("costs_water")), 2),
                total_difference_wastewater |->
                    Round(calculate_difference(total("payments_wastewater"),
                                               total("costs_wastewater")), 2),
                total_difference_rainwater |->
                    Round(calculate_difference(total("payments_rainwater"),
                                               total("costs_rainwater")), 2),
                total_fixed_price       |-> Round(total("fixed_price"), 2),
                number_of_years         |-> number_of_years,
                average_yearly_volume_water      |-> Round(average("volume_water"), 2),
                average_yearly_volume_wastewater |-> Round(average("volume_wastewater"), 2),
                average_yearly_volume_rainwater  |-> Round(average("volume_rainwater"), 2),
                average_yearly_costs_water       |-> Round(average("costs_water"), 2),
                average_yearly_costs_wastewater  |-> Round(average("costs_wastewater"), 2),
                average_yearly_costs_rainwater   |-> Round(average("costs_rainwater"), 2),
                average_yearly_fixed_price       |-> Round(average("fixed_price"), 2),
                total_costs             |-> Round(total_costs, 2),
                average_usage           |-> Round(average("volume_water"), 2)])

\* SQL min() and max() over the non-NULL values of a group; <<>> stands for
\* NULL (no value in the group).
Lowest(values) ==
    IF values = <<>> THEN <<>>
    ELSE <<CHOOSE x \in {values[i] : i \in 1..Len(values)} :
             \A i \in 1..Len(values) : RLeq(x, values[i])>>

Highest(values) ==
    IF values = <<>> THEN <<>>
    ELSE <<CHOOSE x \in {values[i] : i \in 1..Len(values)} :
             \A i \in 1..Len(values) : RLeq(values[i], x)>>

\* round(x, 3) if x is not None else 0.0
RoundOrZero(x) == IF x # <<>> THEN Round(x[1], 3) ELSE Zero

\* The rows an entry must pass to count in the price trend: every stream's
\* volume positive.
WaterTrendFilter(r) ==
    r.volume_water > 0 /\ r.volume_wastewater > 0 /\ r.volume_rainwater > 0

\* get_water_price_trend: WHERE every volume > 0 GROUP BY year ORDER BY year;
\* avg, min (of the rows whose volume > 0) and max of each unit price and of
\* fixed_price, then WaterPriceTrend(...).
get_water_price_trend(table) ==
    LET rows     == Rows(table)
        filtered == SelectSeq(rows, WaterTrendFilter)
        years    == Sorted({filtered[i].year : i \in 1..Len(filtered)})
        group(y) == SelectSeq(filtered, LAMBDA r : r.year = y)
        ratio(g, costs, volume) ==
            [i \in 1..Len(g) |-> RDiv(g[i][costs], IntRat(g[i][volume]))]
        positive(g, volume) == SelectSeq(g, LAMBDA r : r[volume] > 0)
        fixed(g) == [i \in 1..Len(g) |-> g[i].fixed_price]
    IN  [k \in 1..Len(years) |->
          LET g == group(years[k])
          IN  Construct(WaterPriceTrend,
                [year |-> years[k],
                 average_price_water |->
                     Round(Avg(ratio(g, "costs_water", "volume_water")), 3),
                 min_price_water |->
                     RoundOrZero(Lowest(ratio(positive(g, "volume_water"),
                                              "costs_water", "volume_water"))),
                 max_price_water |->
                     Round(Highest(ratio(g, "costs_water", "volume_water"))[1], 3),
                 average_price_wastewater |->
                     Round(Avg(ratio(g, "costs_wastewater", "volume_wastewater")), 3),
                 min_price_wastewater |->
                     RoundOrZero(Lowest(ratio(positive(g, "volume_wastewater"),
                                              "costs_wastewater", "volume_water"))),
                 max_price_wastewater |->
                     RoundOrZero(Highest(ratio(g, "costs_wastewater", "volume_wastewater"))),
                 average_price_rainwater |->
                     Round(Avg(ratio(g, "costs_rainwater", "volume_rainwater")), 3),
                 min_price_rainwater |->
                     RoundOrZero(Lowest(ratio(positive(g, "volume_rainwater"),
                                              "costs_rainwater", "volume_rainwater"))),
                 max_price_rainwater |->
                     RoundOrZero(Highest(ratio(g, "costs_rainwater", "volume_rainwater"))),
                 average_fixed_price |-> Round(Avg(fixed(g)), 3),
                 min_fixed_price     |-> RoundOrZero(Lowest(fixed(g))),
                 max_fixed_price     |-> RoundOrZero(Highest(fixed(g)))])]

\* get_water_yearly_summary: the columns its query names, then GROUP BY year
\* ORDER BY year with the sums, then WaterYearlySummary(...).
get_water_yearly_summary(table) ==
    IF ~HasAttributes(WaterDB,
            {"year", "volume_water", "volume_rainwater", "costs_water",
             "costs_wastewater", "costs_rainwater", "payments_water",
             "payments_wastewater", "payments_rainwater"})
    THEN [ok |-> FALSE, error |-> "AttributeError"]
    ELSE LET rows     == Rows(table)
             years    == Sorted({rows[i].year : i \in 1..Len(rows)})
             group(y) == SelectSeq(rows, LAMBDA r : r.year = y)
             summary  ==
               [k \in 1..Len(years) |->
                 LET g == group(years[k])
                 IN  Construct(WaterYearlySummary,
                       [year |-> years[k],
                        total_volume_water      |-> Round(SumColumn(g, "volume_water"), 2),
                        total_volume_wastewater |-> Round(SumColumn(g, "volume_water"), 2),
                        total_volume_rainwater  |-> Round(SumColumn(g, "volume_rainwater"), 2),
                        total_costs_water       |-> Round(SumColumn(g, "costs_water"), 2),
                        total_costs_wastewater  |-> Round(SumColumn(g, "costs_wastewater"), 2),
                        total_costs_rainwater   |-> Round(SumColumn(g, "costs_rainwater"), 2),
                        total_payments_water    |-> Round(SumColumn(g, "payments_water"), 2),
                        total_payments_wastewater |->
                            Round(SumColumn(g, "payments_wastewater"), 2),
                        total_payments_rainwater |->
                            Round(SumColumn(g, "payments_rainwater"), 2),
                        volume_wastewater |->
                            Round(RAdd(SumColumn(g, "volume_water"),
                                       SumColumn(g, "volume_rainwater")), 2),
                        costs_wastewater |->
                            Round(RAdd(SumColumn(g, "costs_wastewater"),
                                       SumColumn(g, "costs_rainwater")), 2)])]
         IN  IF AllOk(summary)
             THEN [ok |-> TRUE, value |-> Values(summary)]
             ELSE [ok |-> FALSE, error |-> "ValidationError"]

(***************************************************************************)
(* Water bills the clients submit (WaterCreate payloads).                  *)
(***************************************************************************)
WaterCreate(year, volumes, costs, payments, fixed_price) ==
    [year |-> year, volume_water |-> volumes[1], volume_wastewater |-> volumes[2],
     volume_rainwater |-> volumes[3], costs_water |-> IntRat(costs[1]),
     costs_wastewater |-> IntRat(costs[2]), costs_rainwater |-> IntRat(costs[3]),
     payments |-> IntRat(payments), fixed_price |-> IntRat(fixed_price),
     note |-> "None"]

\* A bill of 2023 with all three streams.
Bill2023 == WaterCreate(2023, <<100, 90, 40>>, <<200, 270, 60>>, 600, 120)

\* A second bill of 2023 without rainwater.
NoRain2023 == WaterCreate(2023, <<80, 70, 0>>, <<160, 210, 0>>, 400, 120)

\* A bill of 2022 with all three streams.
Bill2022 == WaterCreate(2022, <<120, 110, 50>>, <<216, 330, 70>>, 700, 110)

\* A bill of 2024 with rainwater only.
RainOnly2024 == WaterCreate(2024, <<0, 0, 30>>, <<0, 0, 45>>, 150, 125)

WaterInputs == {Bill2023, NoRain2023, Bill2022, RainOnly2024}

\* WaterResponse(id=..., ..., **derived_fields)
WaterResponseOf(db_entry) ==
    LET derived_fields == calculate_water_derived_fields(db_entry)
    IN  IF ~derived_fields.ok
        THEN derived_fields
        ELSE Construct(WaterResponse, db_entry @@ derived_fields.value)

\* POST /water/entries: the entry is committed before its fields are derived.
CreateWaterEntry(entry) ==
    /\ NextId(water) <= MaxId
    /\ LET created == create_entry(water, entry)
           answer  == WaterResponseOf(created.db_entry)
       IN  /\ water' = created.table
           /\ response' = IF answer.ok
                          THEN Respond("create_water_entry", entry, 201, answer.value)
                          ELSE Fail("create_water_entry", entry, answer.error)
    /\ UNCHANGED <<electricity, oil, oil_fill_level, sessions>>

\* GET /water/entries
ReadWaterEntries ==
    /\ LET entries == get_entries(water)
           answer  == [i \in 1..Len(entries) |-> WaterResponseOf(entries[i])]
       IN  response' =
             IF AllOk(answer)
             THEN Respond("read_water_entries", <<>>, 200,
                          SortedDescending(Values(answer), "year"))
             ELSE Fail("read_water_entries", <<>>,
                       answer[CHOOSE i \in 1..Len(answer) :
                                 ~answer[i].ok /\ \A j \in 1..(i - 1) : answer[j].ok].error)
    /\ UNCHANGED <<electricity, oil, water, oil_fill_level, sessions>>

\* GET /water/entries/{entry_id}
ReadWaterEntry(entry_id) ==
    /\ LET db_entry == get_entry(water, entry_id)
       IN  response' =
             IF db_entry = <<>>
             THEN NotFound("read_water_entry", entry_id)
             ELSE LET answer == WaterResponseOf(db_entry[1])
                  IN  IF answer.ok
                      THEN Respond("read_water_entry", entry_id, 200, answer.value)
                      ELSE Fail("read_water_entry", entry_id, answer.error)
    /\ UNCHANGED <<electricity, oil, water, oil_fill_level, sessions>>

\* DELETE /water/entries/{entry_id}
DeleteWaterEntry(entry_id) ==
    LET deleted == delete_entry(water, entry_id)
    IN  /\ water' = deleted.table
        /\ response' = IF ~deleted.result
                       THEN NotFound("delete_water_entry", entry_id)
                       ELSE Respond("delete_water_entry", entry_id, 204, <<>>)
        /\ UNCHANGED <<electricity, oil, oil_fill_level, sessions>>

\* GET /water/stats/overall
GetWaterOverallStats ==
    /\ LET answer == get_water_overall_stats(water)
       IN  response' = IF answer.ok
                       THEN Respond("get_water_overall_stats", <<>>, 200, answer.value)
                       ELSE Fail("get_water_overall_stats", <<>>, answer.error)
    /\ UNCHANGED <<electricity, oil, water, oil_fill_level, sessions>>

\* GET /water/stats/yearly_summary
GetWaterYearlySummary ==
    /\ LET answer == get_water_yearly_summary(water)
       IN  response' = IF answer.ok
                       THEN Respond("get_water_yearly_summary", <<>>, 200, answer.value)
                       ELSE Fail("get_water_yearly_summary", <<>>, answer.error)
    /\ UNCHANGED <<electricity, oil, water, oil_fill_level, sessions>>

\* GET /water/stats/price_trend
GetWaterPriceTrend ==
    /\ LET answer == get_water_price_trend(water)
       IN  response' = IF AllOk(answer)
                       THEN Respond("get_water_price_trend", <<>>, 200, Values(answer))
                       ELSE Fail("get_water_price_trend", <<>>, "ValidationError")
    /\ UNCHANGED <<electricity, oil, water, oil_fill_level, sessions>>

NextWater ==
    \/ \E entry \in WaterInputs : CreateWaterEntry(entry)
    \/ ReadWaterEntries
    \/ \E entry_id \in EntryIds : ReadWaterEntry(entry_id)
    \/ \E entry_id \in EntryIds : DeleteWaterEntry(entry_id)
    \/ GetWaterOverallStats
    \/ GetWaterYearlySummary
    \/ GetWaterPriceTrend

SpecWater == Init /\ [][NextWater]_vars

(***************************************************************************)
(* Electricity and oil side by side: entries are recorded in both          *)
(* collections and every read-only operation of either kind is requested.  *)
(* At most MaxRows entries are stored in the two collections together.     *)
(***************************************************************************)
MaxRows == 3

RoomForEntry == Cardinality(electricity) + Cardinality(oil) < MaxRows

\* Two bills starting in 2023, one in 2022, one without consumption in 2024.
BothElectricityInputs == {Year2022, Year2023, AcrossNewYear, ZeroUsage}

\* Two deliveries in 2023, one in 2022, one record without a delivery in 2024.
BothOilInputs == {Spring2023, Autumn2023, Summer2022, NoDelivery2024}

NextBoth ==
    \/ \E entry \in BothElectricityInputs : RoomForEntry /\ CreateElectricityEntry(entry)
    \/ \E entry \in BothOilInputs : RoomForEntry /\ CreateOilEntry(entry)
    \/ \E entry_id \in EntryIds : ReadElectricityEntry(entry_id)
    \/ GetElectricityOverallStats
    \/ GetElectricityYearlySummary
    \/ GetElectricityPriceTrend
    \/ ReadOilEntries
    \/ \E entry_id \in EntryIds : ReadOilEntry(entry_id)
    \/ GetOilOverallStats
    \/ GetOilYearlySummary
    \/ GetOilPriceTrend

SpecBoth == Init /\ [][NextBoth]_vars

(***************************************************************************)
(* The per-request store session (database.py): get_db_* opens a session,  *)
(* yields it to the handler and closes it in a finally block.              *)
(* sessions[request] is "idle" before the request arrives, "open" while    *)
(* its handler runs on the session, "returned" or "raised" when the        *)
(* handler has finished and the generator is resumed, and "closed" after   *)
(* db.close().                                                             *)
(***************************************************************************)
\* db = SessionLocal...(); yield db.  A finished request's slot serves the
\* next request.
AcquireSession(request) ==
    /\ sessions[request] \in {"idle", "closed"}
    /\ sessions' = [sessions EXCEPT ![request] = "open"]
    /\ UNCHANGED <<electricity, oil, oil_fill_level, water, response>>

\* The handler returns its answer.
HandlerReturns(request) ==
    /\ sessions[request] = "open"
    /\ sessions' = [sessions EXCEPT ![request] = "returned"]
    /\ UNCHANGED <<electricity, oil, oil_fill_level, water, response>>

\* The handler raises (an HTTPException or any other exception).
HandlerRaises(request) ==
    /\ sessions[request] = "open"
    /\ sessions' = [sessions EXCEPT ![request] = "raised"]
    /\ UNCHANGED <<electricity, oil, oil_fill_level, water, response>>

\* db.close() written after the yield without try/finally: not reached when
\* the handler raised.
CloseSessionOnReturnOnly(request) ==
    /\ sessions[request] = "returned"
    /\ sessions' = [sessions EXCEPT ![request] = "closed"]
    /\ UNCHANGED <<electricity, oil, oil_fill_level, water, response>>

\* finally: db.close()
CloseSession(request) ==
    /\ sessions[request] \in {"returned", "raised"}
    /\ sessions' = [sessions EXCEPT ![request] = "closed"]
    /\ UNCHANGED <<electricity, oil, oil_fill_level, water, response>>

NextSession ==
    \/ \E request \in Requests : AcquireSession(request)
    \/ \E request \in Requests : HandlerReturns(request)
    \/ \E request \in Requests : HandlerRaises(request)
    \/ \E request \in Requests : CloseSession(request)

\* Every handler finishes (its loops are finite) and the framework always
\* resumes the dependency generator of a finished request.
SpecSession ==
    /\ Init
    /\ [][NextSession]_vars
    /\ \A request \in Requests :
          /\ WF_vars(HandlerReturns(request) \/ HandlerRaises(request))
          /\ WF_vars(CloseSession(request))

(***************************************************************************)
(* Properties.                                                             *)
(***************************************************************************)
PositiveDuration(r) == r.time_to > r.time_from

PositiveRows(table) == {r \in table : PositiveDuration(r)}

\* Sum of an integer-valued function over its domain.
RECURSIVE IntSum(_)
IntSum(f) ==
    IF DOMAIN f = {} THEN 0
    ELSE LET x == CHOOSE x \in DOMAIN f : TRUE
         IN  f[x] + IntSum([y \in DOMAIN f \ {x} |-> f[y]])

\* Sum of a rational-valued function over its domain.
RECURSIVE RatSum(_)
RatSum(f) ==
    IF DOMAIN f = {} THEN Zero
    ELSE LET x == CHOOSE x \in DOMAIN f : TRUE
         IN  RAdd(f[x], RatSum([y \in DOMAIN f \ {x} |-> f[y]]))

RAbs(a) == [n |-> Abs(a.n), d |-> a.d]

Jan1(y) == Date(y, 1, 1)

\* Days of r's period that fall in calendar year y: from max(time_from, Jan 1
\* of y) to min(time_to, Jan 1 of y + 1), end exclusive.
OverlapDays(r, y) ==
    Max(0, Min(r.time_to, Jan1(y + 1)) - Max(r.time_from, Jan1(y)))

\* The years around r's period.
YearsAround(r) == (YearOf(r.time_from) - 1)..(YearOf(r.time_to) + 1)

YearlySummaryAnswered ==
    response.op = "get_electricity_yearly_summary" /\ response.status = 200

\* C1: for every stored electricity entry with positive duration, the
\* proration of the yearly summary conserves the entry: the days assigned to
\* the years sum to its duration and the per-year usage and cost
\* contributions sum to its usage and costs (exactly, before rounding); the
\* rounded per-year totals the summary answers for a collection whose only
\* positive-duration entry is r sum to r's usage and costs within half a
\* cent per listed year.
ProrationConservesEntry ==
    /\ \A r \in PositiveRows(electricity) :
          LET yd == YearlyData(<<r>>)
          IN  /\ IntSum([y \in DOMAIN yd |-> yd[y].total_days]) = r.time_to - r.time_from
              /\ RatSum([y \in DOMAIN yd |-> yd[y].total_usage]) = IntRat(r.usage)
              /\ RatSum([y \in DOMAIN yd |-> yd[y].total_costs]) = r.costs
    /\ YearlySummaryAnswered =>
          \A r \in electricity : PositiveRows(electricity) = {r} =>
              LET body      == response.body
                  tolerance == Rat(Len(body), 200)
              IN  /\ RLeq(RAbs(RSub(RatSum([k \in 1..Len(body) |-> body[k].total_usage]),
                                    IntRat(r.usage))), tolerance)
                  /\ RLeq(RAbs(RSub(RatSum([k \in 1..Len(body) |-> body[k].total_costs]),
                                    r.costs)), tolerance)

\* C1 witness: the summary of a collection holding one entry that touches
\* three years, whose per-year shares are not whole numbers.
ProrationConservesEntryWitness ==
    /\ YearlySummaryAnswered
    /\ Len(response.body) = 3
    /\ \E r \in electricity : electricity = {r} /\ r.usage = 1000
    /\ response.body[1].total_usage.d # 1

\* C2: an entry's contribution to calendar year Y is its daily rate times
\* the days from max(time_from, Jan 1 of Y) to min(time_to, Jan 1 of Y + 1);
\* years the period does not touch receive nothing; the period 2023-11-15 to
\* 2024-02-10 with usage 870 gives 47 days / 470 units in 2023 and 40 days /
\* 400 units in 2024.
ContributionIsRateTimesOverlap ==
    /\ \A r \in PositiveRows(electricity) :
          LET yd       == YearlyData(<<r>>)
              duration == r.time_to - r.time_from
          IN  /\ DOMAIN yd \subseteq YearsAround(r)
              /\ \A y \in YearsAround(r) :
                    IF OverlapDays(r, y) > 0
                    THEN /\ y \in DOMAIN yd
                         /\ yd[y].total_days = OverlapDays(r, y)
                         /\ yd[y].total_usage = Rat(r.usage * OverlapDays(r, y), duration)
                         /\ yd[y].total_costs =
                               RMul(r.costs, Rat(OverlapDays(r, y), duration))
                    ELSE y \notin DOMAIN yd
    /\ \A i \in EntryIds :
          PositiveRows(electricity) = {[id |-> i] @@ AcrossNewYear} =>
              /\ LET yd == YearlyData(Rows(electricity))
                 IN  /\ DOMAIN yd = {2023, 2024}
                     /\ yd[2023].total_days = 47 /\ yd[2024].total_days = 40
              /\ YearlySummaryAnswered =>
                    response.body =
                        <<[year |-> 2023, total_usage |-> IntRat(470), total_costs |-> IntRat(141)],
                          [year |-> 2024, total_usage |-> IntRat(400), total_costs |-> IntRat(120)]>>

\* C2 witness: the summary of the collection holding the 2023-11-15 to
\* 2024-02-10 entry alone lists 470 units for 2023 and 400 for 2024.
ContributionIsRateTimesOverlapWitness ==
    /\ YearlySummaryAnswered
    /\ \E i \in EntryIds : electricity = {[id |-> i] @@ AcrossNewYear}
    /\ Len(response.body) = 2
    /\ response.body[1].year = 2023 /\ response.body[1].total_usage = IntRat(470)
    /\ response.body[2].year = 2024 /\ response.body[2].total_usage = IntRat(400)

\* C3: the unit price is 0.0 when the quantity is 0 and costs / quantity when
\* the quantity is > 0, rounded to 3 decimals in the derived fields (a
\* multiple of 0.001 within 0.0005 of costs / quantity); computing it never
\* raises ZeroDivisionError.
PriceIsGuardedRatio ==
    /\ response.op = "calculate_price" =>
          /\ response.error = ""
          /\ response.request.usage = 0 => response.body = Zero
          /\ response.request.usage > 0 =>
                RMul(response.body, IntRat(response.request.usage)) = response.request.costs
    /\ response.op = "calculate_electricity_derived_fields" =>
          /\ response.error = ""
          /\ response.request.usage = 0 => response.body.price = Zero
          /\ response.request.usage > 0 =>
                LET p == response.body.price
                    c == response.request.costs
                    u == response.request.usage
                IN  /\ 1000 % p.d = 0
                    /\ 2000 * Abs(p.n * c.d * u - c.n * p.d) <= p.d * c.d * u

\* C3 witness: derived fields of an entry with usage 0 and nonzero costs.
PriceIsGuardedRatioWitness ==
    /\ response.op = "calculate_electricity_derived_fields"
    /\ response.error = ""
    /\ response.request.usage = 0
    /\ response.request.costs # Zero
    /\ response.body.price = Zero

\* C4: for every electricity entry the derived field difference equals
\* costs - payments: it is positive exactly when costs exceeded payments.
DifferenceIsCostsMinusPayments ==
    response.op = "calculate_electricity_derived_fields" =>
        /\ response.error = ""
        /\ response.body.difference =
              Round(RSub(response.request.costs, response.request.payments), 2)
        /\ (response.body.difference.n > 0) <=>
              RLess(response.request.payments, response.request.costs)

StatsOps ==
    {"get_electricity_overall_stats", "get_electricity_yearly_summary",
     "get_electricity_price_trend"}

\* C5: for every content of the collection (empty, zero quantities,
\* non-positive durations included) each statistics operation answers a
\* well-formed result object and never raises.
StatisticsAlwaysAnswer ==
    response.op \in StatsOps => response.status = 200 /\ response.error = ""

\* C6: on an empty collection overall stats returns an object in which every
\* total and average is 0 and number_of_years = 0, without raising.
EmptyOverallStatsAllZero ==
    (response.op = "get_electricity_overall_stats" /\ electricity = {}) =>
        /\ response.status = 200
        /\ response.body = [total_usage |-> Zero, total_costs |-> Zero,
                            number_of_years |-> Zero, average_usage |-> Zero]

\* C7: an electricity entry with time_to <= time_from contributes nothing to
\* the overall stats (the totals and span the function computes, and what it
\* answers) and nothing to the yearly summary: the collection with and
\* without it gives the same outputs; its derived fields are computed
\* without error, so creating or reading it is answered 201 / 200.
NonPositiveEntryContributesNothing ==
    /\ \A r \in electricity : ~PositiveDuration(r) =>
          /\ get_electricity_yearly_summary(electricity \ {r})
                = get_electricity_yearly_summary(electricity)
          /\ ElectricityOverallStatsKwargs(Rows(electricity \ {r}))
                = ElectricityOverallStatsKwargs(Rows(electricity))
          /\ get_electricity_overall_stats(electricity \ {r})
                = get_electricity_overall_stats(electricity)
          /\ ElectricityResponseOf(r).ok
    /\ (/\ response.op \in {"create_electricity_entry", "read_electricity_entry"}
        /\ response.status # 404) =>
          /\ response.status \in {200, 201}
          /\ \A f \in {"price", "monthly_payment", "difference"} :
                f \in DOMAIN response.body /\ ~Raised(response.body[f])

\* C7 witness: the yearly summary of a collection holding a zero-duration
\* entry that starts before, and a positive-duration entry.
NonPositiveEntryContributesNothingWitness ==
    /\ YearlySummaryAnswered
    /\ Len(response.body) > 0
    /\ \E r \in electricity, q \in electricity :
          /\ r.time_to = r.time_from
          /\ PositiveDuration(q)
          /\ r.time_from < q.time_from
          /\ r.usage > 0

\* Years touched by at least one positive-duration entry of the table.
TouchedYears(table) ==
    {y \in UNION {YearsAround(r) : r \in PositiveRows(table)} :
        \E r \in PositiveRows(table) : OverlapDays(r, y) > 0}

\* C8: the yearly summary holds exactly one item per calendar year touched by
\* at least one positive-duration entry, each item's totals are the
\* accumulated contributions of all entries to that year (rounded to 2
\* decimals), and the items are in strictly ascending year order.
YearlySummaryOnePerTouchedYear ==
    YearlySummaryAnswered =>
        LET body == response.body
            pos  == PositiveRows(electricity)
        IN  /\ {body[k].year : k \in 1..Len(body)} = TouchedYears(electricity)
            /\ Len(body) = Cardinality(TouchedYears(electricity))
            /\ \A k \in 1..(Len(body) - 1) : body[k].year < body[k + 1].year
            /\ \A k \in 1..Len(body) :
                  LET y == body[k].year
                  IN  /\ body[k].total_usage =
                            Round(RatSum([r \in pos |->
                                Rat(r.usage * OverlapDays(r, y), r.time_to - r.time_from)]), 2)
                      /\ body[k].total_costs =
                            Round(RatSum([r \in pos |->
                                RMul(r.costs,
                                     Rat(OverlapDays(r, y), r.time_to - r.time_from))]), 2)

\* C8 witness: a summary of three years, one of which receives contributions
\* of two different entries.
YearlySummaryOnePerTouchedYearWitness ==
    /\ YearlySummaryAnswered
    /\ Len(response.body) = 3
    /\ \E r \in PositiveRows(electricity), q \in PositiveRows(electricity) :
          /\ r.time_from # q.time_from
          /\ \E y \in TouchedYears(electricity) :
                OverlapDays(r, y) > 0 /\ OverlapDays(q, y) > 0

\* Every entry has a positive duration inside one calendar year and no two
\* periods overlap.
WholeYearEntries(table) ==
    /\ table # {}
    /\ \A r \in table :
          PositiveDuration(r) /\ YearOf(r.time_from) = YearOf(r.time_to - 1)
    /\ \A r \in table, q \in table :
          r # q => (r.time_to <= q.time_from \/ q.time_to <= r.time_from)

RowsOfYear(table, y) == {r \in table : YearOf(r.time_from) = y}

\* C9, the yearly-summary half: for non-overlapping entries that each lie
\* inside one calendar year the summary lists, ascending, for each year the
\* sum of usage and costs of that year's entries.
WholeYearSummaryIsPerYearSum ==
    (YearlySummaryAnswered /\ WholeYearEntries(electricity)) =>
        LET body == response.body
        IN  /\ {body[k].year : k \in 1..Len(body)}
                  = {YearOf(r.time_from) : r \in electricity}
            /\ \A k \in 1..(Len(body) - 1) : body[k].year < body[k + 1].year
            /\ \A k \in 1..Len(body) :
                  LET rows == RowsOfYear(electricity, body[k].year)
                  IN  /\ body[k].total_usage = RatSum([r \in rows |-> IntRat(r.usage)])
                      /\ body[k].total_costs = RatSum([r \in rows |-> r.costs])

\* C9: for non-overlapping entries that each lie inside one calendar year the
\* yearly summary returns per year the sum of usage and costs of that year's
\* entries, ascending, and overall stats returns total_usage equal to the sum
\* of all usage.
WholeYearEndToEnd ==
    /\ WholeYearSummaryIsPerYearSum
    /\ (response.op = "get_electricity_overall_stats" /\ WholeYearEntries(electricity)) =>
          /\ response.status = 200
          /\ response.body.total_usage
                = RatSum([r \in electricity |-> IntRat(r.usage)])

\* C10: overall stats computes number_of_years as (max(time_to) -
\* min(time_from)) in days / 365.25, max and min over the positive-duration
\* entries only, and the average yearly usage as total_usage /
\* number_of_years (each rounded to 2 decimals when handed to the result).
SpanAwareNumberOfYears ==
    LET pos == PositiveRows(electricity)
    IN  pos # {} =>
          LET span   == SetMax({r.time_to : r \in pos}) - SetMin({r.time_from : r \in pos})
              years  == Rat(span * 100, 36525)
              total  == RatSum([r \in pos |-> IntRat(r.usage)])
              kwargs == ElectricityOverallStatsKwargs(Rows(electricity))
          IN  /\ kwargs.number_of_years = Round(years, 2)
              /\ kwargs.average_yearly_usage = Round(RDiv(total, years), 2)

\* C10 witness: overall stats was requested on a collection with two
\* positive-duration entries and a non-positive one lying outside their span.
SpanAwareNumberOfYearsWitness ==
    /\ response.op = "get_electricity_overall_stats"
    /\ Cardinality(PositiveRows(electricity)) = 2
    /\ \E r \in electricity :
          /\ ~PositiveDuration(r)
          /\ \A q \in PositiveRows(electricity) : q.time_to < r.time_to
    /\ RLess(IntRat(1), ElectricityOverallStatsKwargs(Rows(electricity)).number_of_years)

(***************************************************************************)
(* Oil: derived fields and overall statistics.                             *)
(***************************************************************************)
OilRowsOfYear(table, y) == {r \in table : YearOf(r.date) = y}

\* The sum of volume over the deliveries of calendar year y.
OilYearVolume(table, y) ==
    IntRat(IntSum([r \in OilRowsOfYear(table, y) |-> r.volume]))

\* C11: an oil entry read back reports as year_usage the sum of volume over
\* all stored oil entries whose date lies in the same calendar year as its
\* own (deliveries of 200 and 150 in one year: each reports 350).
OilYearUsageIsYearTotal ==
    /\ (response.op = "read_oil_entry" /\ response.status = 200) =>
          response.body.year_usage =
              Round(OilYearVolume(oil, YearOf(response.body.date)), 2)
    /\ (response.op = "read_oil_entries" /\ response.status = 200) =>
          \A i \in 1..Len(response.body) :
              response.body[i].year_usage =
                  Round(OilYearVolume(oil, YearOf(response.body[i].date)), 2)

\* C12: on a non-empty oil collection overall stats returns total_volume and
\* total_costs as the sums over all entries, number_of_years as the number of
\* distinct calendar years among the entry dates, and average_volume as
\* total_volume / number_of_years (the floats rounded to 2 decimals).
OilOverallStatsOfNonEmpty ==
    (response.op = "get_oil_overall_stats" /\ oil # {}) =>
        LET total_volume == IntRat(IntSum([r \in oil |-> r.volume]))
            total_costs  == RatSum([r \in oil |-> r.costs])
            years        == {YearOf(r.date) : r \in oil}
        IN  /\ response.status = 200
            /\ response.body.total_volume = Round(total_volume, 2)
            /\ response.body.total_costs = Round(total_costs, 2)
            /\ response.body.number_of_years = Cardinality(years)
            /\ response.body.average_volume =
                   Round(RDiv(total_volume, IntRat(Cardinality(years))), 2)

\* C12 witness: overall stats answered on three deliveries in two calendar
\* years, two of them in the same year.
OilOverallStatsOfNonEmptyWitness ==
    /\ response.op = "get_oil_overall_stats"
    /\ response.status = 200
    /\ Cardinality(oil) = 3
    /\ response.body.number_of_years = 2
    /\ response.body.total_volume = IntRat(1350)
    /\ response.body.average_volume = IntRat(675)

(***************************************************************************)
(* Price trends of electricity and oil.                                    *)
(***************************************************************************)
\* The entries with a nonzero quantity, each with its year and unit price.
ElectricityPriced ==
    {[id |-> r.id, year |-> YearOf(r.time_from), price |-> RDiv(r.costs, IntRat(r.usage))] :
        r \in {q \in electricity : q.usage # 0}}

OilPriced ==
    {[id |-> r.id, year |-> YearOf(r.date), price |-> RDiv(r.costs, IntRat(r.volume))] :
        r \in {q \in oil : q.volume # 0}}

PricedOfYear(priced, y) == {p \in priced : p.year = y}

RatMin(S) == CHOOSE x \in S : \A y \in S : RLeq(x, y)

RatMax(S) == CHOOSE x \in S : \A y \in S : RLeq(y, x)

\* One point per year of `priced`, ascending, each giving the mean unit price.
AveragePoints(body, priced) ==
    /\ Len(body) = Cardinality({p.year : p \in priced})
    /\ \A k \in 1..Len(body) :
          LET of_year == PricedOfYear(priced, body[k].year)
          IN  /\ of_year # {}
              /\ k < Len(body) => body[k].year < body[k + 1].year
              /\ body[k].average_price =
                     Round(RDiv(RatSum([p \in of_year |-> p.price]),
                                IntRat(Cardinality(of_year))), 3)

\* Each point also carries the smallest and the largest unit price of its year.
MinMaxPoints(body, priced) ==
    \A k \in 1..Len(body) :
        LET prices == {p.price : p \in PricedOfYear(priced, body[k].year)}
        IN  \E lo, hi \in DOMAIN body[k] \ {"year", "average_price"} :
                /\ lo # hi
                /\ body[k][lo] = Round(RatMin(prices), 3)
                /\ body[k][hi] = Round(RatMax(prices), 3)

WaterRowsOfYear(table, y) == {r \in table : r.year = y}

\* The mean of costs/volume over the rows of `rows` whose volume is nonzero.
MeanUnitPrice(rows, costs, volume) ==
    LET with_volume == {r \in rows : r[volume] # 0}
    IN  RDiv(RatSum([r \in with_volume |-> RDiv(r[costs], IntRat(r[volume]))]),
             IntRat(Cardinality(with_volume)))

\* costs / volume, 0 for a zero volume.
GuardedUnitPrice(costs, volume) ==
    IF volume = 0 THEN Zero ELSE RDiv(costs, IntRat(volume))

\* C14: in the water price trend an entry without rainwater but with water and
\* wastewater volumes still counts in the water and wastewater averages of
\* its year: the trend has a point for that year whose water and wastewater
\* averages are taken over all entries of the year with that stream's volume
\* nonzero.
WaterTrendStreamsIndependent ==
    response.op = "get_water_price_trend" =>
        \A r \in water :
            (r.volume_rainwater = 0 /\ r.volume_water # 0 /\ r.volume_wastewater # 0) =>
                /\ response.status = 200
                /\ \E k \in 1..Len(response.body) :
                      LET point   == response.body[k]
                          of_year == WaterRowsOfYear(water, r.year)
                      IN  /\ point.year = r.year
                          /\ {"average_price_water", "average_price_wastewater"}
                                 \subseteq DOMAIN point
                          /\ point.average_price_water =
                                 Round(MeanUnitPrice(of_year, "costs_water", "volume_water"), 3)
                          /\ point.average_price_wastewater =
                                 Round(MeanUnitPrice(of_year, "costs_wastewater",
                                                     "volume_wastewater"), 3)

\* C15: for every stored water entry deriving its fields succeeds and gives
\* the three unit prices price_water, price_wastewater and price_rainwater,
\* each costs_X / volume_X of its own stream, 0 where that volume is 0
\* (rounded to 3 decimals).
WaterDerivedPricesPerStream ==
    (response.op = "read_water_entry" /\ response.status # 404) =>
        LET r == CHOOSE r \in water : r.id = response.request
        IN  /\ response.status = 200
            /\ response.body.price_water =
                   Round(GuardedUnitPrice(r.costs_water, r.volume_water), 3)
            /\ response.body.price_wastewater =
                   Round(GuardedUnitPrice(r.costs_wastewater, r.volume_wastewater), 3)
            /\ response.body.price_rainwater =
                   Round(GuardedUnitPrice(r.costs_rainwater, r.volume_rainwater), 3)

\* C16: the water yearly summary has one item per distinct year of the stored
\* entries, ascending by year, and each total of an item is the sum of the
\* same-named field over that year's entries; total_volume_wastewater is the
\* sum of volume_wastewater.
WaterYearlySummaryPerYearSums ==
    response.op = "get_water_yearly_summary" =>
        /\ response.status = 200
        /\ Len(response.body) = Cardinality({r.year : r \in water})
        /\ \A k \in 1..Len(response.body) :
              LET item    == response.body[k]
                  of_year == WaterRowsOfYear(water, item.year)
                  sum(f)  == Round(IntRat(IntSum([r \in of_year |-> r[f]])), 2)
              IN  /\ of_year # {}
                  /\ k < Len(response.body) => item.year < response.body[k + 1].year
                  /\ {"total_volume_water", "total_volume_wastewater",
                      "total_volume_rainwater"} \subseteq DOMAIN item
                  /\ item.total_volume_water = sum("volume_water")
                  /\ item.total_volume_wastewater = sum("volume_wastewater")
                  /\ item.total_volume_rainwater = sum("volume_rainwater")

(***************************************************************************)
(* Read-only operations: repeatability and frame.                          *)
(***************************************************************************)
OverallStatsOps == {"get_electricity_overall_stats", "get_oil_overall_stats"}

\* The operations that derive fields or compute statistics.
ReaderOps ==
    {"read_electricity_entry", "get_electricity_overall_stats",
     "get_electricity_yearly_summary", "get_electricity_price_trend",
     "read_oil_entries", "read_oil_entry", "get_oil_overall_stats",
     "get_oil_yearly_summary", "get_oil_price_trend"}

ReadersChangeNoCollection ==
    [][response'.op \in ReaderOps =>
          electricity' = electricity /\ oil' = oil /\ water' = water]_vars

\* C18 witness: the oil price trend has answered on a collection that holds a
\* record its filter rejects, next to a stored electricity bill.
ReadersChangeNoCollectionWitness ==
    /\ response.op = "get_oil_price_trend"
    /\ \E r \in oil : r.volume = 0
    /\ \E r \in oil : r.volume > 0
    /\ electricity # {}

(***************************************************************************)
(* The entry store: create, get, delete.                                   *)
(***************************************************************************)
\* C19: deleting by id answers success (204, delete_entry returned True)
\* exactly when an entry with that id was stored; then exactly that entry is
\* gone and every other entry is as before.  Otherwise it answers not found
\* (404, delete_entry returned False) and the collection is as before.
DeleteRemovesExactlyThatEntry ==
    [][response'.op = "delete_electricity_entry" =>
          LET entry_id == response'.request
          IN  IF entry_id \in Ids(electricity)
              THEN /\ response'.status = 204
                   /\ electricity' = {r \in electricity : r.id # entry_id}
              ELSE /\ response'.status = 404
                   /\ electricity' = electricity]_vars

\* C19 witness: entry 2 of three has just been deleted; entries 1 and 3 are
\* still stored.
DeleteRemovesExactlyThatEntryWitness ==
    /\ response.op = "delete_electricity_entry"
    /\ response.status = 204
    /\ response.request = 2
    /\ Ids(electricity) = {1, 3}

\* C20: after any sequence of creates and deletes the stored ids are pairwise
\* distinct and get_entry(id) of a stored entry returns that entry with the
\* field values it was created with: a create stores the submitted values
\* under an id no stored entry has, and no later step changes a stored entry.
StoredEntriesKeepIdAndValues ==
    /\ [](\A r \in electricity :
             /\ \A q \in electricity : q.id = r.id => q = r
             /\ get_entry(electricity, r.id) = <<r>>)
    /\ [][(response'.op = "create_electricity_entry" /\ electricity' # electricity) =>
             \E db_entry \in electricity' :
                /\ electricity' = electricity \cup {db_entry}
                /\ db_entry.id \notin Ids(electricity)
                /\ db_entry = [id |-> db_entry.id] @@ response'.request
                /\ get_entry(electricity', db_entry.id) = <<db_entry>>]_vars
    /\ [][\A r \in electricity :
             r.id \in Ids(electricity') => get_entry(electricity', r.id) = <<r>>]_vars

\* C20 witness: after entry 1 was deleted an entry has been created as id 3
\* next to entry 2, and reading it back gives the submitted values.
StoredEntriesKeepIdAndValuesWitness ==
    /\ response.op = "create_electricity_entry"
    /\ Ids(electricity) = {2, 3}
    /\ get_entry(electricity, 3) = <<[id |-> 3] @@ response.request>>
    /\ get_entry(electricity, 2) # <<>>
    /\ get_entry(electricity, 1) = <<>>

(***************************************************************************)
(* The HTTP surface: create, lookup and delete endpoints.                  *)
(***************************************************************************)
CreateRequests == {"create_electricity_entry", "post_oil_entries", "create_water_entry"}

\* The collection a request of the named operation works on.
CollectionOf(op) ==
    CASE op \in {"create_electricity_entry", "read_electricity_entry",
                 "delete_electricity_entry"} -> electricity
      [] op \in {"post_oil_entries", "read_oil_entry", "delete_oil_entry"} -> oil
      [] op \in {"create_water_entry", "read_water_entry", "delete_water_entry"} -> water
      [] op = "delete_oil_fill_level_entry" -> oil_fill_level

\* C21: for each kind, an entry submitted to POST /<kind>/entries is accepted:
\* the answer is 201 and carries the stored entry (the submitted values under
\* its new id), which the collection now holds, together with its derived
\* fields.
PostEntryAnswersCreated ==
    response.op \in CreateRequests =>
        /\ response.status = 201
        /\ \E db_entry \in CollectionOf(response.op) :
              /\ db_entry = [id |-> db_entry.id] @@ response.request
              /\ \A f \in DOMAIN db_entry : response.body[f] = db_entry[f]
              /\ DOMAIN response.body # DOMAIN db_entry

\* C23: on every collection, the oil fill levels included, a delete request
\* answers 204 with the entry gone or 404 (the id not being stored) and
\* never fails in another way.
DeleteAnswers204Or404 ==
    response.op \in {"delete_electricity_entry", "delete_oil_entry",
                     "delete_water_entry", "delete_oil_fill_level_entry"} =>
        /\ response.status \in {204, 404}
        /\ response.request \notin Ids(CollectionOf(response.op))

\* C22: looking up an id that is not stored gives None from get_entry and a
\* 404 from the router, no exception; looking up a stored id answers 200 with
\* that entry and its derived fields (electricity and oil).
LookupAnswersEntryOr404 ==
    /\ \A entry_id \in EntryIds :
          /\ entry_id \notin Ids(electricity) => get_entry(electricity, entry_id) = <<>>
          /\ entry_id \notin Ids(oil) => get_entry(oil, entry_id) = <<>>
    /\ response.op = "read_electricity_entry" =>
          LET stored == {r \in electricity : r.id = response.request}
          IN  IF stored = {}
              THEN response.status = 404 /\ response.error = ""
              ELSE /\ response.status = 200
                   /\ \E r \in stored :
                         response.body = r @@ calculate_electricity_derived_fields(r)
    /\ response.op = "read_oil_entry" =>
          LET stored == {r \in oil : r.id = response.request}
          IN  IF stored = {}
              THEN response.status = 404 /\ response.error = ""
              ELSE /\ response.status = 200
                   /\ \E r \in stored :
                         response.body = r @@ calculate_oil_derived_fields(r)

\* C22 witness: entry 3 was looked up and answered 404 while the electricity
\* collection holds entries 1 and 2.
LookupAnswersEntryOr404Witness ==
    /\ response.op = "read_electricity_entry"
    /\ response.request = 3
    /\ response.status = 404
    /\ Ids(electricity) = {1, 2}

\* C24: the monthly_payment of an electricity entry is its payments per day
\* of the billing period times 30.44, (payments / duration_days) * 30.44 with
\* duration_days = time_to - time_from, and 0.0 when duration_days <= 0
\* (rounded to 2 decimals).
MonthlyPaymentFollowsBillingPeriod ==
    (/\ response.op \in {"create_electricity_entry", "read_electricity_entry"}
     /\ response.status \in {200, 201}) =>
        response.body.monthly_payment =
            Round(calculate_monthly_payment_dynamic(
                      response.body.payments,
                      response.body.time_to - response.body.time_from), 2)

(***************************************************************************)
(* Store sessions.                                                         *)
(***************************************************************************)
\* C25: every session a request acquires is eventually closed, whether its
\* handler returns or raises; no request keeps its session open for ever.
EverySessionEventuallyClosed ==
    \A request \in Requests :
        (sessions[request] \in {"open", "returned", "raised"})
            ~> (sessions[request] = "closed")

\* C25 witness: the handler of request 1 has raised on its open session
\* while request 2 is still running and request 3 has been closed.
EverySessionEventuallyClosedWitness ==
    /\ sessions[1] = "raised"
    /\ sessions[2] = "open"
    /\ sessions[3] = "closed"

(***************************************************************************)
(* The proration loop.                                                     *)
(***************************************************************************)
\* The calendar years the days time_from .. time_to - 1 fall in.
YearsTouched(r) == YearOf(r.time_to - 1) - YearOf(r.time_from) + 1

\* The loop's iterations for entry r; a loop that advanced a day at a time
\* would need duration_days of them.
IterationsOf(r) ==
    ProrateIterations(r.time_from, r.time_to, get_days_in_period(r.time_from, r.time_to))

\* C26: for every electricity entry of positive duration the proration loop
\* terminates: every iteration has current_date < segment_end <= time_to and
\* starts where the previous one ended, the last one ends at time_to, and
\* there are as many iterations as calendar years the period touches.
ProrationLoopTerminates ==
    \A r \in PositiveRows(electricity) :
        LET iterations == IterationsOf(r)
        IN  /\ Len(iterations) = YearsTouched(r)
            /\ iterations[1].current_date = r.time_from
            /\ iterations[Len(iterations)].segment_end = r.time_to
            /\ \A k \in 1..Len(iterations) :
                  /\ iterations[k].current_date < iterations[k].segment_end
                  /\ iterations[k].segment_end <= r.time_to
                  /\ k > 1 => iterations[k].current_date = iterations[k - 1].segment_end

\* C26 witness: the yearly summary was computed over an entry whose loop ran
\* three times (December 2022 to February 2024) and one whose loop ran once.
ProrationLoopTerminatesWitness ==
    /\ response.op = "get_electricity_yearly_summary"
    /\ response.status = 200
    /\ \E r \in PositiveRows(electricity) : Len(IterationsOf(r)) = 3
    /\ \E r \in PositiveRows(electricity) : Len(IterationsOf(r)) = 1

(***************************************************************************)
(* Yearly summary against overall statistics.                              *)
(***************************************************************************)
\* C27: the yearly summary and the overall statistics add up the same
\* entries, the positive-duration ones: before rounding, the per-year usage
\* (costs) of the summary sums to the usage (costs) of the positive-duration
\* entries, of which the overall total_usage (total_costs) is the rounding;
\* the rounded per-year values the summary answers sum to the overall totals
\* within half a cent per listed year plus half a cent.
YearlySumsMatchOverallTotals ==
    LET rows        == Rows(electricity)
        pos         == PositiveRows(electricity)
        yearly_data == YearlyData(rows)
        kwargs      == ElectricityOverallStatsKwargs(rows)
        usage       == RatSum([y \in DOMAIN yearly_data |-> yearly_data[y].total_usage])
        costs       == RatSum([y \in DOMAIN yearly_data |-> yearly_data[y].total_costs])
    IN  /\ usage = RatSum([r \in pos |-> IntRat(r.usage)])
        /\ costs = RatSum([r \in pos |-> r.costs])
        /\ kwargs.total_usage = Round(usage, 2)
        /\ kwargs.total_costs = Round(costs, 2)
        /\ YearlySummaryAnswered =>
              LET body      == response.body
                  tolerance == Rat(Len(body) + 1, 200)
              IN  /\ RLeq(RAbs(RSub(RatSum([k \in 1..Len(body) |-> body[k].total_usage]),
                                    kwargs.total_usage)), tolerance)
                  /\ RLeq(RAbs(RSub(RatSum([k \in 1..Len(body) |-> body[k].total_costs]),
                                    kwargs.total_costs)), tolerance)

\* C27 witness: the summary of a collection with two positive-duration
\* entries and a non-positive one that has usage, listing several years, one
\* of them with a usage that rounding changed.
YearlySumsMatchOverallTotalsWitness ==
    /\ YearlySummaryAnswered
    /\ Len(response.body) > 1
    /\ Cardinality(PositiveRows(electricity)) = 2
    /\ \E r \in electricity : ~PositiveDuration(r) /\ r.usage > 0
    /\ \E k \in 1..Len(response.body) :
          response.body[k].total_usage
             # YearlyData(Rows(electricity))[response.body[k].year].total_usage

(***************************************************************************)
(* Overall statistics: the guarded divisions.                              *)
(***************************************************************************)
\* min_date, max_date and the totals as the loop of overall stats leaves them.
OverallAccumulated(rows) ==
    OverallLoop(rows, 1, [total_usage |-> Zero, total_costs |-> Zero,
                          min_date |-> <<>>, max_date |-> <<>>])

\* C28: in overall stats, with at least one positive-duration entry
\* max_date > min_date, so the span in days is positive, number_of_years
\* before rounding is positive, and the values handed on are those of the
\* division branches; without one, min_date is None and the no-data return
\* is taken.  The "else 0.0" branches are never the source of a value.
OverallStatsDivisorsPositive ==
    LET rows   == Rows(electricity)
        acc    == OverallAccumulated(rows)
        kwargs == ElectricityOverallStatsKwargs(rows)
    IN  /\ PositiveRows(electricity) = {} <=> acc.min_date = <<>>
        /\ acc.min_date = <<>> <=> acc.max_date = <<>>
        /\ acc.min_date # <<>> =>
              LET total_span_days == acc.max_date[1] - acc.min_date[1]
                  number_of_years == SpanYears(total_span_days)
              IN  /\ acc.max_date[1] > acc.min_date[1]
                  /\ total_span_days > 0
                  /\ RLess(Zero, number_of_years)
                  /\ number_of_years.d # 0
                  /\ kwargs.number_of_years = Round(number_of_years, 2)
                  /\ kwargs.average_yearly_usage
                        = Round(RDiv(acc.total_usage, number_of_years), 2)

\* C28 witness: overall stats was requested on a collection holding one
\* positive-duration entry, a zero-duration entry and a negative-duration
\* entry; the span comes from the positive entry alone.
OverallStatsDivisorsPositiveWitness ==
    /\ response.op = "get_electricity_overall_stats"
    /\ Cardinality(PositiveRows(electricity)) = 1
    /\ \E r \in electricity : r.time_to = r.time_from
    /\ \E r \in electricity : r.time_to < r.time_from
    /\ LET acc == OverallAccumulated(Rows(electricity))
       IN  acc.min_date # <<>> /\ acc.max_date[1] - acc.min_date[1] > 1

(***************************************************************************)
(* Row order.                                                              *)
(***************************************************************************)
\* The sequences holding the elements of rows in every order.
Reorderings(rows) ==
    {[k \in 1..Len(rows) |-> rows[f[k]]] : f \in Permutations(1..Len(rows))}

\* The yearly summary computed from rows taken in the given order.
YearlySummaryOfRows(rows) ==
    LET yearly_data == YearlyData(rows)
        years       == YearOrder(DOMAIN yearly_data)
    IN  [k \in 1..Len(years) |->
            [year        |-> years[k],
             total_usage |-> Round(yearly_data[years[k]].total_usage, 2),
             total_costs |-> Round(yearly_data[years[k]].total_costs, 2)]]

\* C29: the values of overall stats and of the yearly summary do not depend
\* on the order in which the query returns the rows: every reordering of the
\* stored rows leaves the loop of overall stats with the same totals and
\* the same min_date and max_date (span), and the loop of the yearly summary
\* with the same per-year sums, listed in the same year order; that is the
\* summary answered.  (Both are functions of the stored rows alone; the
\* reorderings are gone through in the states where the yearly summary was
\* requested.)
StatsIndependentOfRowOrder ==
    YearlySummaryAnswered =>
        LET rows    == Rows(electricity)
            acc     == OverallAccumulated(rows)
            data    == YearlyData(rows)
            summary == YearlySummaryOfRows(rows)
        IN  /\ Len(response.body) = Len(summary)
            /\ \A k \in 1..Len(summary) :
                  \A f \in {"year", "total_usage", "total_costs"} :
                     response.body[k][f] = summary[k][f]
            /\ \A reordered \in Reorderings(rows) :
                  /\ OverallAccumulated(reordered) = acc
                  /\ LET reordered_data == YearlyData(reordered)
                     IN  /\ reordered_data = data
                         /\ YearOrder(DOMAIN reordered_data) = YearOrder(DOMAIN data)

\* C29 witness: the yearly summary was requested on three stored entries,
\* two of positive duration in different years, the later one stored first.
StatsIndependentOfRowOrderWitness ==
    /\ YearlySummaryAnswered
    /\ Len(response.body) > 1
    /\ Cardinality(electricity) = 3
    /\ \E r \in PositiveRows(electricity), q \in PositiveRows(electricity) :
          r.id < q.id /\ r.time_from > q.time_to

(***************************************************************************)
(* Listing the entries of a collection.                                    *)
(***************************************************************************)
\* body lists every row of table exactly once, each with the derived fields
\* named, the largest key first.
ListsEveryEntryOnce(body, table, key, derived) ==
    /\ Len(body) = Cardinality(table)
    /\ {body[k].id : k \in 1..Len(body)} = Ids(table)
    /\ \A k \in 1..Len(body) :
          /\ derived \subseteq DOMAIN body[k]
          /\ \E r \in table : \A column \in DOMAIN r : body[k][column] = r[column]
    /\ \A k \in 1..(Len(body) - 1) : body[k][key] >= body[k + 1][key]

\* C30: listing the electricity entries answers 200 with every stored entry
\* exactly once, derived fields included, ordered by time_from descending;
\* listing the water entries likewise, ordered by year descending.
ListingReturnsEveryEntrySorted ==
    /\ response.op = "read_electricity_entries" =>
          /\ response.status = 200
          /\ ListsEveryEntryOnce(response.body, electricity, "time_from",
                                 {"price", "monthly_payment", "difference"})
    /\ response.op = "read_water_entries" =>
          /\ response.status = 200
          /\ ListsEveryEntryOnce(response.body, water, "year",
                                 {"price_water", "price_wastewater", "price_rainwater",
                                  "monthly_payment", "difference"})

====
